---- MODULE Spec2Model ----
(***************************************************************************)
(* Policy-gated adapter decision engine and its CLI                         *)
(* (.GITHUB-MODE/scripts/enforce-policy-gated-adapter.ts).                  *)
(*                                                                         *)
(* Strings are modelled as sequences of tokens (a token is a word of a     *)
(* template literal or one interpolated value), so that concatenation is   *)
(* \o and "s contains t" is "t is a contiguous run of s".  JSON values are *)
(* tagged records: [k |-> kind, ...].  A property that an object does not  *)
(* carry reads as Undefined, as in JavaScript; reading a property of null  *)
(* throws a TypeError.                                                     *)
(***************************************************************************)
EXTENDS Integers, Sequences, FiniteSets, TLC

VARIABLES
  policyFile,     \* .GITHUB-MODE/runtime/command-policy.json under root
  contractsFile,  \* .GITHUB-MODE/runtime/adapter-contracts.json under root
  outcome,        \* what the latest call of enforcePolicyGatedAdapter did
  pinned,         \* an earlier call kept for comparison with later ones
  env,            \* process.env of a CLI run
  argv,           \* process.argv.slice(2) of a CLI run
  pc,             \* where the CLI run stands
  index,          \* the loop variable of main's argument loop
  exitCode,       \* the process exit code, once pc = "exited"
  written,        \* the writeFileSync calls that succeeded, in order
  printed,        \* the console lines, in order
  pathParts,      \* a path as directory, file name and extension
  pathText,       \* the same path as text: the input of isSpecArtifact
  specArtifact,   \* the result of isSpecArtifact(pathText)
  diffLines,      \* the records of a change list, each a sequence of fields
  diffOutput,     \* the change list as text: the input of parseDiffEntries
  entries,        \* the result of parseDiffEntries(diffOutput)
  addedSpecs,     \* the result of getAddedSpecArtifacts(entries)
  updated,        \* the result of hasScoreboardUpdate(entries)
  tracking,       \* what enforceSpecToImplementationTracking(entries) did
  scoreboard,     \* a parsed implementation-scoreboard.json
  reordered,      \* the same scoreboard with its capabilities in another order
  validation,     \* what validateScoreboard(scoreboard) did
  counts,         \* the result of getScoreCounts(scoreboard)
  report,         \* what buildParityReport(scoreboard) did
  reportReordered, \* what buildParityReport(reordered) did
  options,        \* what parseCliOptions(argv) did
  repository,     \* the git checkout: the refs that verify, the diff against each
  baseRef,        \* the result of determineBaseRef()
  scoreboardFile  \* .GITHUB-MODE/runtime/implementation-scoreboard.json on disk

fileVars == <<policyFile, contractsFile>>
mainVars == <<env, argv, pc, index, exitCode, written, printed>>
pathVars == <<pathParts, pathText, specArtifact>>
diffVars == <<pathVars, diffLines, diffOutput, entries, addedSpecs, updated, tracking>>
cliVars == <<options, repository, baseRef, scoreboardFile>>
boardVars == <<scoreboard, reordered, validation, counts, report, reportReordered, cliVars>>
vars == <<policyFile, contractsFile, outcome, pinned, env, argv, pc, index,
          exitCode, written, printed, pathParts, pathText, specArtifact, diffLines,
          diffOutput, entries, addedSpecs, updated, tracking, scoreboard,
          reordered, validation, counts, report, reportReordered, options,
          repository, baseRef, scoreboardFile>>

\* a function of the scoreboard script not yet applied / applied with a result
Pending == [done |-> FALSE]
Done(value) == [done |-> TRUE, value |-> value]

\* no path is being classified
PathOff ==
  /\ pathParts = [dir |-> <<>>, name |-> <<>>, ext |-> <<>>]
  /\ pathText = <<>>
  /\ specArtifact = Pending

\* no change list is being examined
DiffOff ==
  /\ PathOff
  /\ diffLines = <<>>
  /\ diffOutput = <<>>
  /\ entries = Pending
  /\ addedSpecs = Pending
  /\ updated = Pending
  /\ tracking = Pending

\* no run of the scoreboard script is under way
CliOff ==
  /\ options = Pending
  /\ repository = [verifies |-> {}]
  /\ baseRef = Pending
  /\ scoreboardFile = [st |-> "missing"]

\* no scoreboard is being examined
BoardOff ==
  /\ CliOff
  /\ scoreboard = [k |-> "undefined"]
  /\ reordered = [k |-> "undefined"]
  /\ validation = Pending
  /\ counts = Pending
  /\ report = Pending
  /\ reportReordered = Pending

\* Longest adapters array that Init draws.
MaxAdapters == 2
\* Longest argument list of a CLI run.
MaxArgs == 4

------------------------------------------------------------------------------
\* Token strings

Str(w) == <<w>>

Quoted(s) == <<"\"">> \o s \o <<"\"">>

\* String.prototype.includes / expect(...).toContain: t occurs in s
Contains(s, t) ==
  \E i \in 0..(Len(s) - Len(t)) : \A j \in 1..Len(t) : s[i + j] = t[j]

COMMAND_POLICY_PATH == Str(".GITHUB-MODE/runtime/command-policy.json")
ADAPTER_CONTRACTS_PATH == Str(".GITHUB-MODE/runtime/adapter-contracts.json")

------------------------------------------------------------------------------
\* JSON values, as JSON.parse returns them

Undefined == [k |-> "undefined"]
JNull == [k |-> "null"]
JNum(s) == [k |-> "number", s |-> s]
JStr(s) == [k |-> "string", s |-> s]
JArr(e) == [k |-> "array", e |-> e]
JObj(f) == [k |-> "object", f |-> f]

\* v[name] for a value v other than null and undefined
Get(v, name) ==
  IF v.k = "object" /\ name \in DOMAIN v.f THEN v.f[name] ELSE Undefined

\* reading a property of null (or undefined) raises a TypeError
PropertyReadThrows(v) == v.k \in {"null", "undefined"}

TypeofString(v) == v.k = "string"
IsArray(v) == v.k = "array"
TypeofObject(v) == v.k \in {"object", "array", "null"}

\* String(v), as Array.prototype.join applies it to one element
ElementToString(v) ==
  CASE v.k = "string" -> v.s
    [] v.k = "number" -> v.s
    [] v.k \in {"null", "undefined"} -> <<>>
    [] v.k = "array" -> <<>>
    [] OTHER -> Str("[object Object]")

RECURSIVE Join(_, _)
Join(e, sep) ==
  IF Len(e) = 0 THEN <<>>
  ELSE IF Len(e) = 1 THEN ElementToString(e[1])
  ELSE ElementToString(e[1]) \o sep \o Join(Tail(e), sep)

\* mutant: some(a => a) in place of includes(action)
Includes_someElement(e, action) ==
  \E i \in 1..Len(e) : e[i].k = "string" /\ Len(e[i].s) > 0

\* allowedActions.includes(action): SameValueZero against a string
Includes(e, action) ==
  \E i \in 1..Len(e) : e[i].k = "string" /\ e[i].s = action

\* index of the first element Array.prototype.find accepts, 0 when none
RECURSIVE FindFrom(_, _, _)
FindFrom(adapters, adapterName, i) ==
  IF i > Len(adapters) THEN 0
  ELSE IF /\ adapters[i].k # "null"
          /\ TypeofObject(adapters[i])
          /\ Get(adapters[i], "name").k = "string"
          /\ Get(adapters[i], "name").s = adapterName
       THEN i
       ELSE FindFrom(adapters, adapterName, i + 1)

\* mutant: find(a => a.name) accepts the first named adapter, whatever its name
Find_firstNamed(adapters, adapterName) ==
  LET named == {i \in 1..Len(adapters) :
                  adapters[i].k = "object" /\ Get(adapters[i], "name").k = "string"}
  IN IF named = {} THEN 0 ELSE CHOOSE i \in named : \A j \in named : i <= j

\* mutant: of several adapters with the requested name the last one is taken
Find_lastNamed(adapters, adapterName) ==
  LET named == {i \in 1..Len(adapters) :
                  /\ adapters[i].k = "object"
                  /\ Get(adapters[i], "name").k = "string"
                  /\ Get(adapters[i], "name").s = adapterName}
  IN IF named = {} THEN 0 ELSE CHOOSE i \in named : \A j \in named : i >= j

Find(adapters, adapterName) == FindFrom(adapters, adapterName, 1)

------------------------------------------------------------------------------
\* Files on disk

Missing == [st |-> "missing"]
Invalid == [st |-> "invalid"]
File(doc) == [st |-> "ok", doc |-> doc]

\* readJson: the parsed document, or the exception readFileSync / JSON.parse raise
readJson(file) ==
  CASE file.st = "missing" ->
         [ok |-> FALSE, message |-> <<"ENOENT:", "no", "such", "file", "or", "directory">>]
    [] file.st = "invalid" ->
         [ok |-> FALSE, message |-> <<"Unexpected", "token", "in", "JSON">>]
    [] OTHER -> [ok |-> TRUE, value |-> file.doc]

------------------------------------------------------------------------------
\* enforcePolicyGatedAdapter

\* { ...base, ...rest }
Spread(base, rest) ==
  [f \in (DOMAIN base) \cup (DOMAIN rest) |->
     IF f \in DOMAIN rest THEN rest[f] ELSE base[f]]

Returned(decision) == [kind |-> "returned", decision |-> decision]
Threw(message) == [kind |-> "threw", message |-> message]

\* mutant: the timestamp is left out of base
Base_noTimestamp(adapterName, action, timestamp) ==
  [gate |-> "policy-gated-adapter",
   adapter |-> adapterName,
   action |-> action]

\* mutant: the adapter name is kept in module state and read one call late
Base_stale(adapterName, action, timestamp) ==
  [gate |-> "policy-gated-adapter",
   adapter |-> IF outcome.kind # "none" THEN outcome.call.adapterName
               ELSE adapterName,
   action |-> action,
   timestamp |-> timestamp]

\* const base = { gate, adapter, action, timestamp }
Base(adapterName, action, timestamp) ==
  [gate |-> "policy-gated-adapter",
   adapter |-> adapterName,
   action |-> action,
   timestamp |-> timestamp]

\* typeof commandPolicy.policyVersion === "string" ? ... : "unknown"
PolicyVersionOf(commandPolicy) ==
  IF TypeofString(Get(commandPolicy, "policyVersion"))
  THEN Get(commandPolicy, "policyVersion").s ELSE Str("unknown")

\* mutant: a number under enforcementMode is reported as it stands
EnforcementModeOf_numberKept(commandPolicy) ==
  IF Get(commandPolicy, "enforcementMode").k \in {"string", "number"}
  THEN Get(commandPolicy, "enforcementMode").s ELSE Str("unknown")

\* typeof commandPolicy.enforcementMode === "string" ? ... : "unknown"
EnforcementModeOf(commandPolicy) ==
  IF TypeofString(Get(commandPolicy, "enforcementMode"))
  THEN Get(commandPolicy, "enforcementMode").s ELSE Str("unknown")

\* mutant: only a string other than "enforce" is refused (an absent or
\* non-string mode is let through)
IsEnforce_failOpen(commandPolicy) ==
  ~(/\ TypeofString(Get(commandPolicy, "enforcementMode"))
    /\ Get(commandPolicy, "enforcementMode").s # Str("enforce"))

\* commandPolicy.enforcementMode === "enforce"
IsEnforce(commandPolicy) ==
  /\ TypeofString(Get(commandPolicy, "enforcementMode"))
  /\ Get(commandPolicy, "enforcementMode").s = Str("enforce")

\* mutant: the length check is forgotten
HasConstraints_arrayOnly(adapter) ==
  IsArray(Get(adapter, "constraints"))

\* !(!Array.isArray(adapter.constraints) || adapter.constraints.length === 0)
HasConstraints(adapter) ==
  /\ IsArray(Get(adapter, "constraints"))
  /\ Len(Get(adapter, "constraints").e) # 0

\* the reason templates of the FAIL and PASS exits
ReadFailureReason(fileName, message) ==
  <<"failed", "to", "read", fileName, ":">> \o message

ModeReason(enforcementMode) ==
  <<"command-policy", "enforcementMode", "is">> \o Quoted(enforcementMode)
    \o <<",", "expected">> \o Quoted(Str("enforce")) \o <<"--", "fail-closed", "denial">>

AdaptersNotArrayReason ==
  <<"adapter-contracts.json", "adapters", "is", "not", "an", "array",
    "--", "fail-closed", "denial">>

NotFoundReason(adapterName) ==
  <<"adapter">> \o Quoted(adapterName)
    \o <<"not", "found", "in", "adapter-contracts.json", "--", "fail-closed", "denial">>

NoConstraintsReason(adapterName) ==
  <<"adapter">> \o Quoted(adapterName)
    \o <<"has", "no", "constraints", "defined", "--", "fail-closed", "denial">>

ActionsNotArrayReason ==
  <<"command-policy", "allowedActions", "is", "not", "an", "array",
    "--", "fail-closed", "denial">>

NotAllowedReason(action, allowedActions) ==
  <<"action">> \o Quoted(action)
    \o <<"is", "not", "in", "allowedActions", "(allowed:">>
    \o Join(allowedActions, Str(", ")) \o <<")", "--", "policy", "denial">>

PassReason(adapterName, action, enforcementMode, policyVersion) ==
  <<"adapter">> \o Quoted(adapterName) \o <<"with", "action">> \o Quoted(action)
    \o <<"passed", "policy", "gate", "(enforcement:">> \o enforcementMode
    \o <<",", "policy:">> \o policyVersion \o <<")">>

\* mutant: the PASS exit cites the command policy alone
PassEvidence_policyOnly == COMMAND_POLICY_PATH

\* `${COMMAND_POLICY_PATH}, ${ADAPTER_CONTRACTS_PATH}`
PassEvidence == COMMAND_POLICY_PATH \o Str(", ") \o ADAPTER_CONTRACTS_PATH

\* one exit: { ...base, result, reason, evidence, policyVersion, enforcementMode }
Exit(base, result, reason, evidence, policyVersion, enforcementMode) ==
  Returned(Spread(base,
    [result |-> result,
     reason |-> reason,
     evidence |-> evidence,
     policyVersion |-> policyVersion,
     enforcementMode |-> enforcementMode]))

\* mutant: the refusals of the allowedActions gates name both files as evidence
CheckAction_bothFiles(base, commandPolicy, adapterName, action, policyVersion, enforcementMode) ==
  LET allowedActions == Get(commandPolicy, "allowedActions") IN
  IF ~IsArray(allowedActions) THEN
    Exit(base, "FAIL", ActionsNotArrayReason, PassEvidence,
         policyVersion, enforcementMode)
  ELSE IF ~Includes(allowedActions.e, action) THEN
    Exit(base, "FAIL", NotAllowedReason(action, allowedActions.e), PassEvidence,
         policyVersion, enforcementMode)
  ELSE
    Exit(base, "PASS", PassReason(adapterName, action, enforcementMode, policyVersion),
         PassEvidence, policyVersion, enforcementMode)

\* the allowedActions gates and the PASS exit
CheckAction(base, commandPolicy, adapterName, action, policyVersion, enforcementMode) ==
  LET allowedActions == Get(commandPolicy, "allowedActions") IN
  IF ~IsArray(allowedActions) THEN
    Exit(base, "FAIL", ActionsNotArrayReason, COMMAND_POLICY_PATH,
         policyVersion, enforcementMode)
  ELSE IF ~Includes(allowedActions.e, action) THEN
    Exit(base, "FAIL", NotAllowedReason(action, allowedActions.e), COMMAND_POLICY_PATH,
         policyVersion, enforcementMode)
  ELSE
    Exit(base, "PASS", PassReason(adapterName, action, enforcementMode, policyVersion),
         PassEvidence, policyVersion, enforcementMode)

\* adapters is an array, the adapter is found, it has constraints
CheckAdapter(base, commandPolicy, adapterContracts, adapterName, action, policyVersion, enforcementMode) ==
  IF PropertyReadThrows(adapterContracts) THEN
    Threw(<<"Cannot", "read", "properties", "of", "null", "(reading", "'adapters')">>)
  ELSE
  LET adapters == Get(adapterContracts, "adapters") IN
  IF ~IsArray(adapters) THEN
    Exit(base, "FAIL", AdaptersNotArrayReason, ADAPTER_CONTRACTS_PATH,
         policyVersion, enforcementMode)
  ELSE
  LET found == Find(adapters.e, adapterName) IN
  IF found = 0 THEN
    Exit(base, "FAIL", NotFoundReason(adapterName), ADAPTER_CONTRACTS_PATH,
         policyVersion, enforcementMode)
  ELSE IF ~HasConstraints(adapters.e[found]) THEN
    Exit(base, "FAIL", NoConstraintsReason(adapterName), ADAPTER_CONTRACTS_PATH,
         policyVersion, enforcementMode)
  ELSE
    CheckAction(base, commandPolicy, adapterName, action, policyVersion, enforcementMode)

\* mutant: the adapter contracts are loaded before the enforcement mode is looked at
CheckPolicy_contractsFirst(base, commandPolicy, contracts, adapterName, action) ==
  IF PropertyReadThrows(commandPolicy) THEN
    Threw(<<"Cannot", "read", "properties", "of", "null", "(reading", "'policyVersion')">>)
  ELSE
  LET policyVersion == PolicyVersionOf(commandPolicy)
      enforcementMode == EnforcementModeOf(commandPolicy)
      read == readJson(contracts)
  IN
  IF ~read.ok THEN
    Exit(base, "FAIL", ReadFailureReason("adapter-contracts.json", read.message),
         ADAPTER_CONTRACTS_PATH, policyVersion, enforcementMode)
  ELSE IF ~IsEnforce(commandPolicy) THEN
    Exit(base, "FAIL", ModeReason(enforcementMode), COMMAND_POLICY_PATH,
         policyVersion, enforcementMode)
  ELSE
    CheckAdapter(base, commandPolicy, read.value, adapterName, action,
                 policyVersion, enforcementMode)

\* the enforcement mode gate and the load of the adapter contracts
CheckPolicy(base, commandPolicy, contracts, adapterName, action) ==
  IF PropertyReadThrows(commandPolicy) THEN
    Threw(<<"Cannot", "read", "properties", "of", "null", "(reading", "'policyVersion')">>)
  ELSE
  LET policyVersion == PolicyVersionOf(commandPolicy)
      enforcementMode == EnforcementModeOf(commandPolicy)
  IN
  IF ~IsEnforce(commandPolicy) THEN
    Exit(base, "FAIL", ModeReason(enforcementMode), COMMAND_POLICY_PATH,
         policyVersion, enforcementMode)
  ELSE
  LET read == readJson(contracts) IN
  IF ~read.ok THEN
    Exit(base, "FAIL", ReadFailureReason("adapter-contracts.json", read.message),
         ADAPTER_CONTRACTS_PATH, policyVersion, enforcementMode)
  ELSE
    CheckAdapter(base, commandPolicy, read.value, adapterName, action,
                 policyVersion, enforcementMode)

\* the whole call, on the two files found under root
enforcePolicyGatedAdapter(policy, contracts, adapterName, action, timestamp) ==
  LET base == Base(adapterName, action, timestamp)
      read == readJson(policy)
  IN
  IF ~read.ok THEN
    Exit(base, "FAIL", ReadFailureReason("command-policy.json", read.message),
         COMMAND_POLICY_PATH, Str("unknown"), Str("unknown"))
  ELSE
    CheckPolicy(base, read.value, contracts, adapterName, action)

------------------------------------------------------------------------------
\* The documents the files may hold, and the inputs of a call

RECURSIVE SeqsUpTo(_, _)
SeqsUpTo(S, n) ==
  IF n = 0 THEN {<<>>}
  ELSE LET shorter == SeqsUpTo(S, n - 1) IN
       shorter \cup {Append(q, x) : q \in {r \in shorter : Len(r) = n - 1}, x \in S}

AdapterNames == {Str("repo-write"), Str("policy-sim"), Str("nonexistent-adapter")}
ActionNames == {Str("plan"), Str("open-pr"), Str("delete")}
\* values of new Date().toISOString()
FirstInstant == Str("2026-01-01T00:00:00.000Z")
Timestamps == {FirstInstant, Str("2026-01-01T00:00:01.000Z")}

Constraint == JStr(Str("No direct writes to protected branches."))

\* elements of the adapters array: well-formed contracts and malformed entries
AdapterElements ==
  { JNull,
    JObj([name |-> JStr(Str("repo-write"))]),
    JObj([name |-> JStr(Str("repo-write")), constraints |-> JArr(<<Constraint>>)]),
    JObj([name |-> JStr(Str("repo-write")), constraints |-> JArr(<<>>)]),
    JObj([name |-> JStr(Str("repo-write")), constraints |-> JStr(Str("invalid"))]),
    JObj([name |-> JStr(Str("policy-sim")), constraints |-> JArr(<<Constraint>>)]) }

ContractsDocs ==
  { JNull, JNum(Str("7")), JObj([contractsVersion |-> JStr(Str("v1.0.0"))]),
    JObj([adapters |-> JStr(Str("invalid"))]) }
  \cup { JObj([adapters |-> JArr(e)]) : e \in SeqsUpTo(AdapterElements, MaxAdapters) }

ContractsFiles == {Missing, Invalid} \cup {File(d) : d \in ContractsDocs}

ModeValues ==
  { Undefined, JNum(Str("1")), JStr(Str("enforce")), JStr(Str("audit")) }

VersionValues == { Undefined, JStr(Str("v1.0.0")) }

AllowedActionsValues ==
  { Undefined, JStr(Str("invalid")), JArr(<<>>), JArr(<<JStr(Str("plan"))>>),
    JArr(<<JStr(Str("plan")), JStr(Str("open-pr"))>>) }

\* an object literal with the properties that are present
PolicyObject(version, mode, allowed) ==
  LET present == {f \in {"policyVersion", "enforcementMode", "allowedActions"} :
                    (CASE f = "policyVersion" -> version
                       [] f = "enforcementMode" -> mode
                       [] OTHER -> allowed) # Undefined}
  IN JObj([f \in present |->
             CASE f = "policyVersion" -> version
               [] f = "enforcementMode" -> mode
               [] OTHER -> allowed])

PolicyDocs ==
  { JNull, JNum(Str("7")), JArr(<<>>) }
  \cup { PolicyObject(v, m, a) :
           v \in VersionValues, m \in ModeValues, a \in AllowedActionsValues }

PolicyFiles == {Missing, Invalid} \cup {File(d) : d \in PolicyDocs}

------------------------------------------------------------------------------
\* The engine called repeatedly on one checkout

NotCalled == [kind |-> "none"]
NotPinned == [kind |-> "none"]

\* no CLI run is under way
MainOff ==
  /\ env = [GITHUB_MODE_ADAPTER |-> Undefined, GITHUB_MODE_ACTION |-> Undefined]
  /\ argv = <<>>
  /\ pc = "off"
  /\ index = 0
  /\ exitCode = 0
  /\ written = <<>>
  /\ printed = <<>>

InitEngine ==
  /\ policyFile \in PolicyFiles
  /\ contractsFile \in ContractsFiles
  /\ outcome = NotCalled
  /\ pinned = NotPinned
  /\ MainOff
  /\ DiffOff
  /\ BoardOff

\* the outcome of a call, with the inputs it was given
Call(adapterName, action, timestamp) ==
  [call |-> [adapterName |-> adapterName, action |-> action]]
    @@ enforcePolicyGatedAdapter(policyFile, contractsFile, adapterName, action, timestamp)

\* one call of enforcePolicyGatedAdapter(root, adapterName, action)
Evaluate ==
  /\ \E adapterName \in AdapterNames, action \in ActionNames :
       outcome' = Call(adapterName, action, FirstInstant)
  /\ UNCHANGED <<diffVars, boardVars, fileVars, pinned, mainVars>>

NextEngine == Evaluate

SpecEngine == InitEngine /\ [][NextEngine]_vars

------------------------------------------------------------------------------
\* Calls repeated over time, while the files may be edited between calls

\* the fixtures of the engine's tests
ValidPolicy ==
  File(PolicyObject(JStr(Str("v1.0.0")), JStr(Str("enforce")),
                    JArr(<<JStr(Str("plan")), JStr(Str("open-pr"))>>)))
AuditPolicy ==
  File(PolicyObject(JStr(Str("v1.0.0")), JStr(Str("audit")),
                    JArr(<<JStr(Str("plan")), JStr(Str("open-pr"))>>)))
ValidContracts ==
  File(JObj([adapters |-> JArr(<<
    JObj([name |-> JStr(Str("repo-write")), constraints |-> JArr(<<Constraint>>)]),
    JObj([name |-> JStr(Str("policy-sim")), constraints |-> JArr(<<Constraint>>)]) >>)]))
UnconstrainedContracts ==
  File(JObj([adapters |-> JArr(<<
    JObj([name |-> JStr(Str("repo-write")), constraints |-> JArr(<<>>)]),
    JObj([name |-> JStr(Str("policy-sim")), constraints |-> JArr(<<Constraint>>)]) >>)]))

FixturePolicies == {ValidPolicy, AuditPolicy, Missing}
FixtureContracts == {ValidContracts, UnconstrainedContracts}

\* the calls the tests repeat
RepeatedAdapters == {Str("repo-write"), Str("nonexistent-adapter")}
RepeatedActions == {Str("open-pr"), Str("delete")}

\* a decision without its timestamp
SansTimestamp(o) ==
  IF o.kind = "returned"
  THEN [f \in (DOMAIN o.decision) \ {"timestamp"} |-> o.decision[f]]
  ELSE o.message

InitRepeat ==
  /\ policyFile \in FixturePolicies
  /\ contractsFile \in FixtureContracts
  /\ outcome = NotCalled
  /\ pinned = NotPinned
  /\ MainOff
  /\ DiffOff
  /\ BoardOff

\* a call at some instant; the first call may be kept for later comparison
EvaluateAt ==
  /\ \E adapterName \in RepeatedAdapters, action \in RepeatedActions,
        timestamp \in Timestamps :
       /\ outcome' = Call(adapterName, action, timestamp)
       /\ \/ /\ pinned = NotPinned
             /\ pinned' = [kind |-> "pinned",
                           files |-> <<policyFile, contractsFile>>,
                           call |-> outcome'.call,
                           timestamp |-> timestamp,
                           result |-> SansTimestamp(outcome'),
                           interleaved |-> FALSE]
          \/ /\ pinned # NotPinned
             /\ pinned' = [pinned EXCEPT !.interleaved =
                             @ \/ outcome'.call # pinned.call]
          \/ /\ pinned = NotPinned
             /\ pinned' = pinned
  /\ UNCHANGED <<diffVars, boardVars, fileVars, mainVars>>

\* an edit of the checkout between two calls
EditFiles ==
  /\ policyFile' \in FixturePolicies
  /\ contractsFile' \in FixtureContracts
  /\ UNCHANGED <<diffVars, boardVars, outcome, pinned, mainVars>>

NextRepeat == EvaluateAt \/ EditFiles

SpecRepeat == InitRepeat /\ [][NextRepeat]_vars

------------------------------------------------------------------------------
\* The CLI: the entry guard and main

\* !value of an environment variable: unset or the empty string
Falsy(v) == v.k = "undefined" \/ (v.k = "string" /\ v.s = <<>>)

EnvAdapterValues == {Undefined, JStr(<<>>), JStr(Str("repo-write"))}
EnvActionValues == {Undefined, JStr(Str("open-pr")), JStr(Str("delete"))}
ArgWords == {"--json-out", "--summary-out", "out.json"}

InitMain ==
  /\ policyFile \in {ValidPolicy, Missing, File(JNull)}
  /\ contractsFile = ValidContracts
  /\ outcome = NotCalled
  /\ pinned = NotPinned
  /\ env \in [GITHUB_MODE_ADAPTER : EnvAdapterValues, GITHUB_MODE_ACTION : EnvActionValues]
  /\ argv \in SeqsUpTo(ArgWords, MaxArgs)
  /\ pc = "guard"
  /\ index = 0
  /\ exitCode = 0
  /\ written = <<>>
  /\ printed = <<>>
  /\ DiffOff
  /\ BoardOff

\* console.error / console.log
Stderr(what) == [stream |-> "stderr", what |-> what]
Stdout(what) == [stream |-> "stdout", what |-> what]

\* process.exit(code) after the lines printed before it
Exit1(lines) ==
  /\ printed' = printed \o lines
  /\ exitCode' = 1
  /\ pc' = "exited"

\* the entry guard: main runs only when the file is the script being run
EntryGuard ==
  /\ pc = "guard"
  /\ \E direct \in BOOLEAN : pc' = IF direct THEN "adapter" ELSE "imported"
  /\ UNCHANGED <<diffVars, boardVars, fileVars, outcome, pinned, env, argv, index, exitCode, written, printed>>

\* const adapterName = process.env.GITHUB_MODE_ADAPTER; if (!adapterName) exit(1)
MainAdapterEnv ==
  /\ pc = "adapter"
  /\ IF Falsy(env.GITHUB_MODE_ADAPTER)
     THEN Exit1(<<Stderr("GITHUB_MODE_ADAPTER environment variable is required")>>)
     ELSE pc' = "action" /\ UNCHANGED <<exitCode, printed>>
  /\ UNCHANGED <<diffVars, boardVars, fileVars, outcome, pinned, env, argv, index, written>>

\* const action = process.env.GITHUB_MODE_ACTION; if (!action) exit(1)
MainActionEnv ==
  /\ pc = "action"
  /\ IF Falsy(env.GITHUB_MODE_ACTION)
     THEN Exit1(<<Stderr("GITHUB_MODE_ACTION environment variable is required")>>)
     ELSE pc' = "decide" /\ UNCHANGED <<exitCode, printed>>
  /\ UNCHANGED <<diffVars, boardVars, fileVars, outcome, pinned, env, argv, index, written>>

\* const decision = enforcePolicyGatedAdapter(root, adapterName, action)
MainDecide ==
  /\ pc = "decide"
  /\ outcome' = Call(env.GITHUB_MODE_ADAPTER.s, env.GITHUB_MODE_ACTION.s, FirstInstant)
  /\ pc' = IF outcome'.kind = "threw" THEN "catch" ELSE "args"
  /\ index' = 0
  /\ UNCHANGED <<diffVars, boardVars, fileVars, pinned, env, argv, exitCode, written, printed>>

\* argv[index + 1] is there (no argument word drawn is the empty string)
HasValue(i) == i + 2 <= Len(argv)

\* writeFileSync(path, ...): the file is written, or the call throws
WriteOrThrow(path, what) ==
  \/ /\ written' = Append(written, [path |-> path, what |-> what])
     /\ index' = index + 2
     /\ pc' = "args"
  \/ /\ pc' = "catch"
     /\ UNCHANGED <<written, index>>

\* one iteration of the loop over argv
MainArg ==
  /\ pc = "args"
  /\ index < Len(argv)
  /\ IF argv[index + 1] = "--json-out" /\ HasValue(index)
       THEN WriteOrThrow(argv[index + 2], "json")
     ELSE IF argv[index + 1] = "--summary-out" /\ HasValue(index)
       THEN WriteOrThrow(argv[index + 2], "summary")
     ELSE /\ index' = index + 1
          /\ UNCHANGED <<pc, written>>
  /\ UNCHANGED <<diffVars, boardVars, fileVars, outcome, pinned, env, argv, exitCode, printed>>

\* mutant: a FAIL decision ends the run before anything is printed
MainPrint_failExitsFirst ==
  /\ pc = "args"
  /\ index >= Len(argv)
  /\ printed' = IF outcome.decision.result = "FAIL" THEN printed
                ELSE printed \o <<Stdout("summary"), Stdout("--- POLICY_DECISION_JSON ---"),
                                  Stdout("json")>>
  /\ pc' = "printed"
  /\ UNCHANGED <<diffVars, boardVars, fileVars, outcome, pinned, env, argv, index, exitCode, written>>

\* the loop ends; the summary, the marker and the decision JSON are printed
MainPrint ==
  /\ pc = "args"
  /\ index >= Len(argv)
  /\ printed' = printed \o <<Stdout("summary"), Stdout("--- POLICY_DECISION_JSON ---"),
                             Stdout("json")>>
  /\ pc' = "printed"
  /\ UNCHANGED <<diffVars, boardVars, fileVars, outcome, pinned, env, argv, index, exitCode, written>>

\* mutant: the FAIL check before returning is left out
ExitCodeFor_alwaysZero(decision) == 0

\* if (decision.result === "FAIL") process.exit(1); otherwise main returns
ExitCodeFor(decision) == IF decision.result = "FAIL" THEN 1 ELSE 0

MainFinish ==
  /\ pc = "printed"
  /\ exitCode' = ExitCodeFor(outcome.decision)
  /\ pc' = "exited"
  /\ UNCHANGED <<diffVars, boardVars, fileVars, outcome, pinned, env, argv, index, written, printed>>

\* catch (error) { console.error(message); process.exit(1) }
EntryCatch ==
  /\ pc = "catch"
  /\ Exit1(<<Stderr("error")>>)
  /\ UNCHANGED <<diffVars, boardVars, fileVars, outcome, pinned, env, argv, index, written>>

NextMain ==
  \/ EntryGuard
  \/ MainAdapterEnv
  \/ MainActionEnv
  \/ MainDecide
  \/ MainArg
  \/ MainPrint
  \/ MainFinish
  \/ EntryCatch

SpecMain == InitMain /\ [][NextMain]_vars

------------------------------------------------------------------------------
\* What the claims speak of, read off the two files and the call's inputs

Called == outcome.kind # "none"
ReturnedDecision == outcome.kind = "returned"
Passed == ReturnedDecision /\ outcome.decision.result = "PASS"
Failed == ReturnedDecision /\ outcome.decision.result = "FAIL"

PolicyReadable == policyFile.st = "ok"
ContractsReadable == contractsFile.st = "ok"

\* the value the policy document holds under enforcementMode, Undefined when none
ObservedMode ==
  IF policyFile.doc.k = "object" /\ "enforcementMode" \in DOMAIN policyFile.doc.f
  THEN policyFile.doc.f.enforcementMode ELSE Undefined

ModeIsEnforce ==
  /\ PolicyReadable
  /\ ObservedMode.k = "string"
  /\ ObservedMode.s = Str("enforce")

\* the policy's allowedActions is an array / holds the action
AllowedIsArray ==
  /\ PolicyReadable
  /\ policyFile.doc.k = "object"
  /\ "allowedActions" \in DOMAIN policyFile.doc.f
  /\ policyFile.doc.f.allowedActions.k = "array"

AllowedHolds(action) ==
  /\ AllowedIsArray
  /\ \E i \in DOMAIN policyFile.doc.f.allowedActions.e :
       policyFile.doc.f.allowedActions.e[i] = JStr(action)

\* the adapter contracts hold an adapters array
AdaptersIsArray ==
  /\ ContractsReadable
  /\ contractsFile.doc.k = "object"
  /\ "adapters" \in DOMAIN contractsFile.doc.f
  /\ contractsFile.doc.f.adapters.k = "array"

AdaptersArray == contractsFile.doc.f.adapters.e

\* positions of the adapters named adapterName
Named(adapterName) ==
  { i \in DOMAIN AdaptersArray :
      /\ AdaptersArray[i].k = "object"
      /\ "name" \in DOMAIN AdaptersArray[i].f
      /\ AdaptersArray[i].f.name = JStr(adapterName) }

FirstNamed(adapterName) ==
  AdaptersArray[CHOOSE i \in Named(adapterName) : \A j \in Named(adapterName) : i <= j]

\* the adapter has a constraints array with at least one element
Constrained(adapter) ==
  /\ "constraints" \in DOMAIN adapter.f
  /\ adapter.f.constraints.k = "array"
  /\ Len(adapter.f.constraints.e) >= 1

AllGatesHold(adapterName, action) ==
  /\ ModeIsEnforce
  /\ AdaptersIsArray
  /\ Named(adapterName) # {}
  /\ Constrained(FirstNamed(adapterName))
  /\ AllowedHolds(action)

NineFields ==
  {"gate", "result", "adapter", "action", "reason", "evidence",
   "policyVersion", "enforcementMode", "timestamp"}

------------------------------------------------------------------------------
\* C1: the call returns PASS exactly when every gate holds (policy readable
\* with enforcementMode "enforce", contracts readable with an adapters array,
\* the first adapter of that name has a non-empty constraints array,
\* allowedActions is an array holding the action), and returns FAIL in every
\* other case.
C1_PassIffAllGatesElseFail ==
  Called =>
    /\ Passed <=> AllGatesHold(outcome.call.adapterName, outcome.call.action)
    /\ ~AllGatesHold(outcome.call.adapterName, outcome.call.action) => Failed

\* C2: the engine is total: whatever the two files hold, a call returns a
\* decision and never throws.
C2_NeverThrows == Called => ReturnedDecision

\* the observed mode value as a template literal prints it
LiteralMode ==
  CASE ObservedMode.k \in {"string", "number"} -> ObservedMode.s
    [] OTHER -> Str("null")

\* C3 as stated: whenever the policy object's enforcementMode is not "enforce"
\* (another string, a non-string value, or absent), the call returns FAIL and,
\* when a value is present, the reason contains that literal value.
C3_NonEnforceFailsNamingLiteralMode ==
  (Called /\ PolicyReadable /\ policyFile.doc.k = "object" /\ ~ModeIsEnforce) =>
    /\ Failed
    /\ ObservedMode # Undefined => Contains(outcome.decision.reason, LiteralMode)

\* C3 amended: for a policy object (or any parsed document other than the
\* literal null) whose enforcementMode is not "enforce", the call returns FAIL;
\* the reason quotes the mode when it is a string and the sentinel "unknown"
\* when it is a non-string value or absent.
C3_NonEnforceFailsNamingModeOrUnknown ==
  (Called /\ PolicyReadable /\ policyFile.doc.k # "null" /\ ~ModeIsEnforce) =>
    /\ Failed
    /\ Contains(outcome.decision.reason,
                Quoted(IF ObservedMode.k = "string" THEN ObservedMode.s
                       ELSE Str("unknown")))

\* a non-string mode was observed and the call has failed on it
C3_Witness ==
  /\ Failed
  /\ PolicyReadable
  /\ ObservedMode.k = "number"
  /\ Contains(outcome.decision.reason, Quoted(Str("unknown")))

\* C4 as stated: for every adapter name absent from the adapters collection the
\* call returns FAIL with a reason containing "not found" and "fail-closed".
C4_AbsentAdapterNotFound ==
  (Called /\ AdaptersIsArray /\ Named(outcome.call.adapterName) = {}) =>
    /\ Failed
    /\ Contains(outcome.decision.reason, <<"not", "found">>)
    /\ Contains(outcome.decision.reason, <<"fail-closed">>)

\* C4 amended: when the command policy is readable with enforcementMode
\* "enforce", every adapter name absent from the adapters array yields FAIL with
\* a reason containing "not found" and "fail-closed".
C4_AbsentAdapterNotFoundUnderEnforce ==
  (Called /\ ModeIsEnforce /\ AdaptersIsArray /\ Named(outcome.call.adapterName) = {}) =>
    /\ Failed
    /\ Contains(outcome.decision.reason, <<"not", "found">>)
    /\ Contains(outcome.decision.reason, <<"fail-closed">>)

\* the name is absent from a non-empty adapters array that holds other adapters
C4_Witness ==
  /\ Failed
  /\ ModeIsEnforce
  /\ AdaptersIsArray
  /\ Named(outcome.call.adapterName) = {}
  /\ Named(Str("repo-write")) # {}
  /\ Contains(outcome.decision.reason, <<"not", "found">>)

\* the gates that come before the allowedActions gates
AdapterGatesHold(adapterName) ==
  /\ ModeIsEnforce
  /\ AdaptersIsArray
  /\ Named(adapterName) # {}
  /\ Constrained(FirstNamed(adapterName))

\* C5 as stated: for every action not in allowedActions the call returns FAIL
\* with a reason containing "not in allowedActions" and the rejected action.
C5_DisallowedActionRejected ==
  (Called /\ AllowedIsArray /\ ~AllowedHolds(outcome.call.action)) =>
    /\ Failed
    /\ Contains(outcome.decision.reason, <<"not", "in", "allowedActions">>)
    /\ Contains(outcome.decision.reason, outcome.call.action)

\* C5 amended: when enforcementMode is "enforce" and the requested adapter is
\* found with a non-empty constraints array, every action not in allowedActions
\* yields FAIL with a reason containing "not in allowedActions" and the action.
C5_DisallowedActionRejectedAfterAdapterGates ==
  (/\ Called
   /\ AdapterGatesHold(outcome.call.adapterName)
   /\ AllowedIsArray
   /\ ~AllowedHolds(outcome.call.action)) =>
    /\ Failed
    /\ Contains(outcome.decision.reason, <<"not", "in", "allowedActions">>)
    /\ Contains(outcome.decision.reason, outcome.call.action)

\* an action is rejected by a non-empty allowedActions array
C5_Witness ==
  /\ Failed
  /\ AdapterGatesHold(outcome.call.adapterName)
  /\ AllowedIsArray
  /\ Len(policyFile.doc.f.allowedActions.e) = 2
  /\ ~AllowedHolds(outcome.call.action)
  /\ Contains(outcome.decision.reason, <<"not", "in", "allowedActions">>)

\* the first adapter of that name has no constraints (empty, absent, not an array)
Unconstrained(adapterName) ==
  /\ AdaptersIsArray
  /\ Named(adapterName) # {}
  /\ ~Constrained(FirstNamed(adapterName))

\* C6 as stated: an adapter whose constraints is empty, absent or not an array
\* yields FAIL with a reason containing "no constraints", whatever the action.
C6_UnconstrainedAdapterNoConstraints ==
  (Called /\ Unconstrained(outcome.call.adapterName)) =>
    (Failed /\ Contains(outcome.decision.reason, <<"no", "constraints">>))

\* C6 amended: an adapter whose constraints is empty, absent or not an array
\* never passes; when enforcementMode is "enforce" the call returns FAIL with a
\* reason containing "no constraints", whether or not the action is allowed.
C6_UnconstrainedAdapterNeverPasses ==
  (Called /\ Unconstrained(outcome.call.adapterName)) =>
    /\ ~Passed
    /\ ModeIsEnforce =>
         (Failed /\ Contains(outcome.decision.reason, <<"no", "constraints">>))

\* an adapter with constraints [] is refused although the action is allowed
C6_Witness ==
  /\ Failed
  /\ ModeIsEnforce
  /\ Unconstrained(outcome.call.adapterName)
  /\ "constraints" \in DOMAIN FirstNamed(outcome.call.adapterName).f
  /\ FirstNamed(outcome.call.adapterName).f.constraints = JArr(<<>>)
  /\ AllowedHolds(outcome.call.action)
  /\ Contains(outcome.decision.reason, <<"no", "constraints">>)

\* C7: every returned decision carries exactly the nine fields, all populated;
\* gate is "policy-gated-adapter", result is PASS or FAIL, adapter and action
\* are the inputs of the call.
C7_DecisionComplete ==
  ReturnedDecision =>
    /\ DOMAIN outcome.decision = NineFields
    /\ outcome.decision.gate = "policy-gated-adapter"
    /\ outcome.decision.result \in {"PASS", "FAIL"}
    /\ outcome.decision.adapter = outcome.call.adapterName
    /\ outcome.decision.action = outcome.call.action
    /\ \A f \in {"reason", "evidence", "policyVersion", "enforcementMode", "timestamp"} :
         Len(outcome.decision[f]) > 0

\* a FAIL taken at the last gate, after every earlier exit was passed by
C7_Witness ==
  /\ Failed
  /\ AdapterGatesHold(outcome.call.adapterName)
  /\ AllowedIsArray
  /\ DOMAIN outcome.decision = NineFields

\* C8: a PASS decision's evidence is the command-policy path and the
\* adapter-contracts path, comma-joined, and its reason echoes the enforcement
\* mode and the policy version of the decision; no FAIL decision lists both.
C8_PassEvidenceBothPaths ==
  /\ Passed =>
       /\ outcome.decision.evidence
            = COMMAND_POLICY_PATH \o Str(", ") \o ADAPTER_CONTRACTS_PATH
       /\ Contains(outcome.decision.evidence, COMMAND_POLICY_PATH)
       /\ Contains(outcome.decision.evidence, ADAPTER_CONTRACTS_PATH)
       /\ outcome.decision.enforcementMode = Str("enforce")
       /\ Contains(outcome.decision.reason,
                   <<"(enforcement:">> \o outcome.decision.enforcementMode)
       /\ Contains(outcome.decision.reason,
                   <<"policy:">> \o outcome.decision.policyVersion)
  /\ Failed =>
       ~(/\ Contains(outcome.decision.evidence, COMMAND_POLICY_PATH)
         /\ Contains(outcome.decision.evidence, ADAPTER_CONTRACTS_PATH))

\* a PASS whose policy carries no policyVersion: the reason echoes "unknown"
C8_Witness ==
  /\ Passed
  /\ "policyVersion" \notin DOMAIN policyFile.doc.f
  /\ Contains(outcome.decision.evidence, ADAPTER_CONTRACTS_PATH)

C10_NonZeroIffFail ==
  pc = "exited" => (exitCode # 0 <=> Failed)

\* C10 amended: a CLI run exits zero exactly when a decision was returned with
\* result PASS and nothing threw (no artifact write failed); a FAIL decision
\* always exits non-zero, and so do a missing environment input, an engine
\* exception and a failed write, which leave no FAIL decision behind.
C10_ZeroIffPassAndNoError ==
  pc = "exited" =>
    /\ Failed => exitCode # 0
    /\ exitCode = 0 <=>
         (Passed /\ \A i \in DOMAIN printed : printed[i].stream # "stderr")

\* a FAIL decision was written out, printed, and the run exited non-zero
C10_Witness ==
  /\ pc = "exited"
  /\ Failed
  /\ exitCode = 1
  /\ Len(written) = 2
  /\ Len(printed) = 3

------------------------------------------------------------------------------
\* check-implementation-scoreboard.ts: the change list and the tracking rule.
\* A path, a status and a change list are token strings. A path is cut at
\* every "/", before its extension and before "README"; a change list is cut
\* at every tab, line feed, blank and carriage return as well.

MaxLines == 3

SCOREBOARD_PATH ==
  <<".GITHUB-MODE", "/", "runtime", "/", "implementation-scoreboard", ".json">>
SPEC_ARTIFACT_PREFIX == <<".GITHUB-MODE", "/", "docs", "/", "planning", "/">>

\* String.prototype.startsWith / endsWith
startsWith(s, t) == Len(t) <= Len(s) /\ SubSeq(s, 1, Len(t)) = t
endsWith(s, t) == Len(t) <= Len(s) /\ SubSeq(s, Len(s) - Len(t) + 1, Len(s)) = t

\* the white space String.prototype.trim removes, as far as it occurs here
WhiteSpace == {" ", "\r", "\n", "\t"}

RECURSIVE trimStart(_)
trimStart(s) ==
  IF s # <<>> /\ Head(s) \in WhiteSpace THEN trimStart(Tail(s)) ELSE s

RECURSIVE trimEnd(_)
trimEnd(s) ==
  IF s # <<>> /\ s[Len(s)] \in WhiteSpace THEN trimEnd(SubSeq(s, 1, Len(s) - 1)) ELSE s

trim(s) == trimEnd(trimStart(s))

\* String.prototype.split(separator): "" splits into [""]
RECURSIVE split(_, _)
split(s, separator) ==
  IF \E i \in DOMAIN s : s[i] = separator
  THEN LET i == CHOOSE i \in DOMAIN s :
                  s[i] = separator /\ \A j \in 1..(i - 1) : s[j] # separator
       IN <<SubSeq(s, 1, i - 1)>> \o split(SubSeq(s, i + 1, Len(s)), separator)
  ELSE <<s>>

\* Array.prototype.join over strings
RECURSIVE joinStrings(_, _)
joinStrings(parts, separator) ==
  IF parts = <<>> THEN <<>>
  ELSE IF Len(parts) = 1 THEN parts[1]
  ELSE parts[1] \o <<separator>> \o joinStrings(Tail(parts), separator)

DiffEntry(status, path) == [status |-> status, path |-> path]

\* a loop turn that records the source path only
ParseLine_sourceOnly(acc, line) ==
  LET parts == split(line, "\t") IN
  IF Len(parts) < 2 THEN acc
  ELSE Append(acc, DiffEntry(trim(parts[1]), trim(parts[2])))

\* a loop turn that drops an entry already recorded
ParseLine_deduplicating(acc, line) ==
  LET parts == split(line, "\t")
      fresh(entry) == IF \E i \in DOMAIN acc : acc[i] = entry THEN <<>> ELSE <<entry>>
  IN
  IF Len(parts) < 2 THEN acc
  ELSE LET status == trim(parts[1]) IN
       IF (startsWith(status, <<"R">>) \/ startsWith(status, <<"C">>))
          /\ Len(parts) >= 3 /\ parts[3] # <<>>
       THEN acc \o fresh(DiffEntry(status, trim(parts[2])))
                \o fresh(DiffEntry(status, trim(parts[3])))
       ELSE acc \o fresh(DiffEntry(status, trim(parts[2])))

\* one turn of the loop of parseDiffEntries
ParseLine(acc, line) ==
  LET parts == split(line, "\t") IN
  IF Len(parts) < 2 THEN acc
  ELSE LET status == trim(parts[1]) IN
       IF startsWith(status, <<"R">>) \/ startsWith(status, <<"C">>)
       THEN LET source == Append(acc, DiffEntry(status, trim(parts[2]))) IN
            IF Len(parts) >= 3 /\ parts[3] # <<>>
            THEN Append(source, DiffEntry(status, trim(parts[3])))
            ELSE source
       ELSE Append(acc, DiffEntry(status, trim(parts[2])))

RECURSIVE ParseLines(_, _)
ParseLines(acc, lines) ==
  IF lines = <<>> THEN acc
  ELSE ParseLines(ParseLine(acc, Head(lines)), Tail(lines))

parseDiffEntries(diffOutputText) == ParseLines(<<>>, split(diffOutputText, "\n"))

\* a classification that refuses every name ending in README.md
isSpecArtifact_anyReadme(path) ==
  /\ startsWith(path, SPEC_ARTIFACT_PREFIX)
  /\ endsWith(path, <<".md">>)
  /\ ~endsWith(path, <<"README", ".md">>)

isSpecArtifact(path) ==
  /\ startsWith(path, SPEC_ARTIFACT_PREFIX)
  /\ endsWith(path, <<".md">>)
  /\ ~endsWith(path, <<"/", "README", ".md">>)

\* the tokens of the paths in ascending order of their UTF-16 code units
CodeUnitOrder ==
  <<".GITHUB-MODE", ".json", ".md", "/", "README", "archive", "docs",
    "implementation-scoreboard", "mvvp", "overview", "phase-4", "planning",
    "runtime">>

CodeUnitRank(token) == CHOOSE i \in DOMAIN CodeUnitOrder : CodeUnitOrder[i] = token

\* the default comparison of toSorted: s sorts before t by code units
RECURSIVE Before(_, _)
Before(s, t) ==
  IF t = <<>> THEN FALSE
  ELSE IF s = <<>> THEN TRUE
  ELSE IF Head(s) = Head(t) THEN Before(Tail(s), Tail(t))
  ELSE CodeUnitRank(Head(s)) < CodeUnitRank(Head(t))

\* a stable insertion of x into a sorted list
RECURSIVE InsertSorted(_, _)
InsertSorted(x, sorted) ==
  IF sorted = <<>> THEN <<x>>
  ELSE IF Before(x, Head(sorted)) THEN <<x>> \o sorted
  ELSE <<Head(sorted)>> \o InsertSorted(x, Tail(sorted))

\* a copy left in the order of insertion
toSorted_insertionOrder(list) == list

\* Array.prototype.toSorted() without a comparator, on strings
RECURSIVE toSorted(_)
toSorted(list) ==
  IF list = <<>> THEN <<>>
  ELSE InsertSorted(list[Len(list)], toSorted(SubSeq(list, 1, Len(list) - 1)))

\* the Set of getAddedSpecArtifacts, in insertion order
RECURSIVE Additions(_, _)
Additions(acc, list) ==
  IF list = <<>> THEN acc
  ELSE LET entry == Head(list) IN
       IF /\ entry.status = <<"A">>
          /\ isSpecArtifact(entry.path)
          /\ \A i \in DOMAIN acc : acc[i] # entry.path
       THEN Additions(Append(acc, entry.path), Tail(list))
       ELSE Additions(acc, Tail(list))

getAddedSpecArtifacts(list) == toSorted(Additions(<<>>, list))

\* an update seen in any entry that touches the scoreboard path
hasScoreboardUpdate_anyTouch(list) ==
  \E i \in DOMAIN list : list[i].path = SCOREBOARD_PATH

hasScoreboardUpdate(list) ==
  \E i \in DOMAIN list : list[i].path = SCOREBOARD_PATH /\ list[i].status # <<"D">>

ReturnedVoid == [kind |-> "returned"]

\* a message that lists the first added artifact only
TrackingMessage_firstOnly(added) ==
  joinStrings(
    << <<"New planning/spec artifacts were added without updating implementation scoreboard.">>,
       <<"Added artifacts:">>,
       <<"  - ">> \o added[1],
       <<"Update ">> \o SCOREBOARD_PATH
         \o <<" in the same change to keep spec-vs-implementation tracking current.">> >>,
    "\n")

TrackingMessage(added) ==
  joinStrings(
    << <<"New planning/spec artifacts were added without updating implementation scoreboard.">>,
       <<"Added artifacts:">> >>
    \o [i \in DOMAIN added |-> <<"  - ">> \o added[i]]
    \o << <<"Update ">> \o SCOREBOARD_PATH
            \o <<" in the same change to keep spec-vs-implementation tracking current.">> >>,
    "\n")

enforceSpecToImplementationTracking(list) ==
  LET added == getAddedSpecArtifacts(list) IN
  IF Len(added) = 0 THEN ReturnedVoid
  ELSE IF ~hasScoreboardUpdate(list) THEN Threw(TrackingMessage(added))
  ELSE ReturnedVoid

\* the decision engine and its CLI are not running
EngineOff ==
  /\ policyFile = Missing
  /\ contractsFile = Missing
  /\ outcome = NotCalled
  /\ pinned = NotPinned
  /\ MainOff

engineVars == <<fileVars, outcome, pinned, mainVars>>

\* the paths classified: every directory with every file name and extension
PathDirs ==
  { <<>>,
    SPEC_ARTIFACT_PREFIX,
    SPEC_ARTIFACT_PREFIX \o <<"archive", "/">>,
    <<".GITHUB-MODE", "/", "docs", "/">>,
    <<".GITHUB-MODE", "/", "runtime", "/">>,
    <<"archive", "/">> \o SPEC_ARTIFACT_PREFIX }
PathNames ==
  { <<"phase-5">>, <<"mvvp">>, <<"README">>, <<"overview">>,
    <<"implementation-scoreboard">>, <<"phase-5", "README">> }
PathExts == { <<".md">>, <<".json">>, <<".md", ".json">>, <<>> }

PathText(parts) == parts.dir \o parts.name \o parts.ext

InitPath ==
  /\ EngineOff
  /\ BoardOff
  /\ pathParts \in [dir : PathDirs, name : PathNames, ext : PathExts]
  /\ pathText = PathText(pathParts)
  /\ specArtifact = Pending
  /\ diffLines = <<>>
  /\ diffOutput = <<>>
  /\ entries = Pending
  /\ addedSpecs = Pending
  /\ updated = Pending
  /\ tracking = Pending

ClassifyPath ==
  /\ specArtifact = Pending
  /\ specArtifact' = Done(isSpecArtifact(pathText))
  /\ UNCHANGED <<engineVars, boardVars, pathParts, pathText, diffLines,
                  diffOutput, entries, addedSpecs, updated, tracking>>

NextPath == ClassifyPath

SpecPath == InitPath /\ [][NextPath]_vars

\* the change lists examined: git's --name-status records, field by field
PlanningPath(name) == SPEC_ARTIFACT_PREFIX \o name
Renamed == <<"R", "100">>
Copied == <<"C", "75">>

DiffRecords ==
  { << <<"A">>, PlanningPath(<<"phase-4", ".md">>) >>,
    << <<"A">>, PlanningPath(<<"mvvp", ".md">>) >>,
    << <<"A">>, PlanningPath(<<"README", ".md">>) >>,
    << <<"M">>, <<"README", ".md">> >>,
    << <<"M">>, SCOREBOARD_PATH >>,
    << <<"D">>, SCOREBOARD_PATH >>,
    << Renamed, SCOREBOARD_PATH, <<"archive", "/", "implementation-scoreboard", ".json">> >>,
    << Renamed, <<".GITHUB-MODE", "/", "docs", "/", "overview", ".md">>,
       PlanningPath(<<"phase-4", ".md">>) >>,
    << Renamed, PlanningPath(<<"mvvp", ".md">>) >>,
    << Copied, PlanningPath(<<"phase-4", ".md">>), <<>> >>,
    << <<" ", "A">>, PlanningPath(<<"mvvp", ".md">>) \o <<"\r">> >>,
    << <<>> >> }

\* the text git prints for the records
DiffText(records) ==
  joinStrings([i \in DOMAIN records |-> joinStrings(records[i], "\t")], "\n")

InitDiff ==
  /\ EngineOff
  /\ BoardOff
  /\ PathOff
  /\ diffLines \in SeqsUpTo(DiffRecords, MaxLines)
  /\ diffOutput = DiffText(diffLines)
  /\ entries = Pending
  /\ addedSpecs = Pending
  /\ updated = Pending
  /\ tracking = Pending

ParseDiff ==
  /\ entries = Pending
  /\ entries' = Done(parseDiffEntries(diffOutput))
  /\ UNCHANGED <<engineVars, boardVars, pathVars, diffLines, diffOutput, addedSpecs, updated, tracking>>

AddedSpecArtifacts ==
  /\ entries # Pending
  /\ addedSpecs = Pending
  /\ addedSpecs' = Done(getAddedSpecArtifacts(entries.value))
  /\ UNCHANGED <<engineVars, boardVars, pathVars, diffLines, diffOutput, entries, updated, tracking>>

ScoreboardUpdate ==
  /\ entries # Pending
  /\ updated = Pending
  /\ updated' = Done(hasScoreboardUpdate(entries.value))
  /\ UNCHANGED <<engineVars, boardVars, pathVars, diffLines, diffOutput, entries, addedSpecs, tracking>>

EnforceTracking ==
  /\ entries # Pending
  /\ tracking = Pending
  /\ tracking' = Done(enforceSpecToImplementationTracking(entries.value))
  /\ UNCHANGED <<engineVars, boardVars, pathVars, diffLines, diffOutput, entries, addedSpecs, updated>>

NextDiff ==
  \/ ParseDiff
  \/ AddedSpecArtifacts
  \/ ScoreboardUpdate
  \/ EnforceTracking

SpecDiff == InitDiff /\ [][NextDiff]_vars

------------------------------------------------------------------------------
\* What the claims about the change list speak of

Parsed == entries # Pending

\* the record has a status and a path field
HasTwoFields(record) == Len(record) >= 2

\* the record's status begins with R or C
RenameOrCopy(record) ==
  /\ HasTwoFields(record)
  /\ trim(record[1]) # <<>>
  /\ Head(trim(record[1])) \in {"R", "C"}

\* the record carries a destination path
HasDestination(record) == Len(record) >= 3 /\ record[3] # <<>>

RECURSIVE SumOver(_, _)
SumOver(f, indices) ==
  IF indices = {} THEN 0
  ELSE LET i == CHOOSE i \in indices : TRUE IN f[i] + SumOver(f, indices \ {i})

RECURSIVE Flatten(_)
Flatten(lists) == IF lists = <<>> THEN <<>> ELSE Head(lists) \o Flatten(Tail(lists))

\* the number of entries the claim gives a record
StatedEntryCount(record) ==
  IF ~HasTwoFields(record) THEN 0 ELSE IF RenameOrCopy(record) THEN 2 ELSE 1

\* C11 as stated: every line whose status begins with R or C yields two
\* entries, every other line with at least two fields yields one, so the
\* entries number the sum of these over the lines.
C11_RenameAlwaysTwoEntries ==
  Parsed =>
    Len(entries.value)
      = SumOver([i \in DOMAIN diffLines |-> StatedEntryCount(diffLines[i])],
                DOMAIN diffLines)

\* the entries a record yields: source and destination for a rename or copy
\* that has a non-empty third field, one entry for any other record with at
\* least two fields
EntriesOf(record) ==
  IF ~HasTwoFields(record) THEN <<>>
  ELSE IF RenameOrCopy(record) /\ HasDestination(record)
       THEN << DiffEntry(trim(record[1]), trim(record[2])),
               DiffEntry(trim(record[1]), trim(record[3])) >>
       ELSE << DiffEntry(trim(record[1]), trim(record[2])) >>

\* C11 amended: a line whose status begins with R or C and whose third field
\* is present and non-empty yields two entries, the source path then the
\* destination path, both with the line's status; every other line with at
\* least two fields, a rename or copy without a third field included, yields
\* exactly one entry.
C11_RenameWithDestinationTwoEntries ==
  Parsed =>
    entries.value = Flatten([i \in DOMAIN diffLines |-> EntriesOf(diffLines[i])])

\* a rename with both paths, a rename cut short and a plain line were parsed
C11_Witness ==
  /\ Parsed
  /\ Len(diffLines) = 3
  /\ \E i \in DOMAIN diffLines : RenameOrCopy(diffLines[i]) /\ HasDestination(diffLines[i])
  /\ \E i \in DOMAIN diffLines : RenameOrCopy(diffLines[i]) /\ ~HasDestination(diffLines[i])
  /\ \E i \in DOMAIN diffLines : HasTwoFields(diffLines[i]) /\ ~RenameOrCopy(diffLines[i])
  /\ Len(entries.value) = 4

\* what parseDiffEntries makes of the one record alone
ParsedAlone(record) == parseDiffEntries(DiffText(<<record>>))

\* a line status<TAB>path that is no rename or copy
PlainRecord(record) == Len(record) = 2 /\ ~RenameOrCopy(record)

\* C12: lines with fewer than two tab-separated fields are skipped; the
\* entries of the other lines follow one another in input order and none is
\* dropped as a duplicate, so the result is the results of the single lines
\* put end to end; for an input of non-rename lines status<TAB>path only, the
\* result is the list of the {status, path} pairs of the lines, in order
\* (status and path taken without surrounding white space).
C12_SkipsShortLinesKeepsOrder ==
  Parsed =>
    /\ entries.value = Flatten([i \in DOMAIN diffLines |-> ParsedAlone(diffLines[i])])
    /\ \A i \in DOMAIN diffLines :
         ~HasTwoFields(diffLines[i]) => ParsedAlone(diffLines[i]) = <<>>
    /\ (\A i \in DOMAIN diffLines : PlainRecord(diffLines[i])) =>
         entries.value
           = [i \in DOMAIN diffLines |->
                DiffEntry(trim(diffLines[i][1]), trim(diffLines[i][2]))]

\* the same plain line came twice around a blank line and was recorded twice
C12_Witness ==
  /\ Parsed
  /\ Len(diffLines) = 3
  /\ PlainRecord(diffLines[1])
  /\ ~HasTwoFields(diffLines[2])
  /\ diffLines[3] = diffLines[1]
  /\ entries.value = << DiffEntry(diffLines[1][1], diffLines[1][2]),
                        DiffEntry(diffLines[1][1], diffLines[1][2]) >>

------------------------------------------------------------------------------
\* What the claims about paths speak of

Classified == specArtifact # Pending

\* the path lies in the planning directory or below it
UnderPlanning(parts) ==
  parts.dir \in {SPEC_ARTIFACT_PREFIX, SPEC_ARTIFACT_PREFIX \o <<"archive", "/">>}

\* the path's last extension is .md
Markdown(parts) == parts.ext = <<".md">>

\* the file is the index README.md of its directory
DirectoryIndex(parts) == parts.name = <<"README">> /\ parts.ext = <<".md">>

\* C13: isSpecArtifact(path) is true exactly when the path lies under
\* ".GITHUB-MODE/docs/planning/", ends in ".md" and is not a directory index
\* README.md; the scoreboard path, markdown outside the planning directory and
\* the planning README are never spec artifacts.
C13_SpecArtifactIffPlanningMarkdown ==
  Classified =>
    /\ specArtifact.value
         <=> (/\ UnderPlanning(pathParts)
              /\ Markdown(pathParts)
              /\ ~DirectoryIndex(pathParts))
    /\ pathText = SCOREBOARD_PATH => ~specArtifact.value
    /\ (Markdown(pathParts) /\ ~UnderPlanning(pathParts)) => ~specArtifact.value
    /\ pathText = SPEC_ARTIFACT_PREFIX \o <<"README", ".md">> => ~specArtifact.value

\* a planning markdown file whose name only ends in README was accepted
C13_Witness ==
  /\ Classified
  /\ pathText = SPEC_ARTIFACT_PREFIX \o <<"phase-5", "README", ".md">>
  /\ specArtifact.value

\* the index README.md of a directory below the planning directory was refused
C13_WitnessNestedIndex ==
  /\ Classified
  /\ pathText = SPEC_ARTIFACT_PREFIX \o <<"archive", "/", "README", ".md">>
  /\ ~specArtifact.value

\* the paths of the entries with status exactly "A" that are spec artifacts
AddedArtifactPaths ==
  { entries.value[i].path :
      i \in { j \in DOMAIN entries.value :
                /\ entries.value[j].status = <<"A">>
                /\ isSpecArtifact(entries.value[j].path) } }

\* C14: getAddedSpecArtifacts(entries) holds exactly the paths p for which
\* some entry has status exactly "A" and isSpecArtifact(p) is true, each once,
\* in ascending sorted order; entries with any other status never contribute.
C14_AddedSpecArtifactsSortedSet ==
  (Parsed /\ addedSpecs # Pending) =>
    LET result == addedSpecs.value IN
    /\ { result[i] : i \in DOMAIN result } = AddedArtifactPaths
    /\ \A i, j \in DOMAIN result : i < j => result[i] # result[j]
    /\ \A i, j \in DOMAIN result : i < j => Before(result[i], result[j])

\* two artifacts added in descending order, one of them twice, come out once
\* each in ascending order
C14_Witness ==
  /\ Parsed
  /\ addedSpecs # Pending
  /\ Len(entries.value) = 3
  /\ \A i \in DOMAIN entries.value : entries.value[i].status = <<"A">>
  /\ entries.value[1].path = PlanningPath(<<"phase-4", ".md">>)
  /\ entries.value[2].path = PlanningPath(<<"mvvp", ".md">>)
  /\ entries.value[3].path = PlanningPath(<<"mvvp", ".md">>)
  /\ addedSpecs.value
       = << PlanningPath(<<"mvvp", ".md">>), PlanningPath(<<"phase-4", ".md">>) >>

\* an artifact renamed into the planning directory is not counted as added
C14_WitnessRenamedIn ==
  /\ Parsed
  /\ addedSpecs # Pending
  /\ \E i \in DOMAIN entries.value :
       /\ entries.value[i].status = Renamed
       /\ isSpecArtifact(entries.value[i].path)
  /\ addedSpecs.value = <<>>

\* the statuses of the entries whose path is exactly the scoreboard path
ScoreboardStatuses ==
  { entries.value[i].status :
      i \in { j \in DOMAIN entries.value : entries.value[j].path = SCOREBOARD_PATH } }

\* C15: hasScoreboardUpdate(entries) is true exactly when some entry has the
\* scoreboard path and a status other than "D"; entries that only delete the
\* scoreboard yield false.
C15_UpdateIffNonDeleteScoreboardEntry ==
  (Parsed /\ updated # Pending) =>
    /\ updated.value <=> ScoreboardStatuses \ {<<"D">>} # {}
    /\ ScoreboardStatuses = {<<"D">>} => ~updated.value

\* the scoreboard is only deleted, next to other changes: no update is seen
C15_Witness ==
  /\ Parsed
  /\ updated # Pending
  /\ Len(entries.value) = 3
  /\ ScoreboardStatuses = {<<"D">>}
  /\ ~updated.value

\* the scoreboard is deleted and modified in the same list: an update is seen
C15_WitnessDeletedAndModified ==
  /\ Parsed
  /\ updated # Pending
  /\ ScoreboardStatuses = {<<"D">>, <<"M">>}
  /\ updated.value

Enforced == tracking # Pending

\* the change list adds a spec artifact: an A line whose path is one
AddsSpecArtifact(record) ==
  /\ HasTwoFields(record)
  /\ trim(record[1]) = <<"A">>
  /\ isSpecArtifact(trim(record[2]))

\* the line names the scoreboard path, as its path or as a destination
TouchesScoreboard(record) ==
  /\ HasTwoFields(record)
  /\ \/ trim(record[2]) = SCOREBOARD_PATH
     \/ HasDestination(record) /\ trim(record[3]) = SCOREBOARD_PATH

\* the line takes the scoreboard away from its path: it deletes it, or renames
\* it to another path
RemovesScoreboard(record) ==
  /\ HasTwoFields(record)
  /\ trim(record[2]) = SCOREBOARD_PATH
  /\ \/ trim(record[1]) = <<"D">>
     \/ /\ startsWith(trim(record[1]), <<"R">>)
        /\ ~(HasDestination(record) /\ trim(record[3]) = SCOREBOARD_PATH)

\* C16: for every change list that adds a spec artifact and whose only lines
\* touching the scoreboard path remove the scoreboard from it (a D line, or an
\* R line whose source path is the scoreboard path),
\* enforceSpecToImplementationTracking(parseDiffEntries(diff)) fails.
C16_RemovalNeverSatisfiesTracking ==
  (/\ Parsed
   /\ Enforced
   /\ \E i \in DOMAIN diffLines : AddsSpecArtifact(diffLines[i])
   /\ \E i \in DOMAIN diffLines : TouchesScoreboard(diffLines[i])
   /\ \A i \in DOMAIN diffLines :
        TouchesScoreboard(diffLines[i]) => RemovesScoreboard(diffLines[i]))
  => tracking.value.kind = "threw"

TrackingThrew == Enforced /\ tracking.value.kind = "threw"

\* C17: enforceSpecToImplementationTracking(entries) throws exactly when
\* getAddedSpecArtifacts(entries) is non-empty and hasScoreboardUpdate(entries)
\* is false; the message of the error lists every added spec artifact and
\* names the scoreboard path; in every other case the call returns silently.
C17_ThrowsIffAddedWithoutUpdate ==
  (Parsed /\ Enforced) =>
    LET added == getAddedSpecArtifacts(entries.value) IN
    /\ TrackingThrew <=> (Len(added) > 0 /\ ~hasScoreboardUpdate(entries.value))
    /\ TrackingThrew =>
         /\ \A i \in DOMAIN added :
              Contains(tracking.value.message, <<"\n", "  - ">> \o added[i])
         /\ Contains(tracking.value.message, <<"Update ">> \o SCOREBOARD_PATH)
         /\ Contains(tracking.value.message,
                     <<"New planning/spec artifacts were added without updating implementation scoreboard.">>)
    /\ ~TrackingThrew => tracking.value = ReturnedVoid

\* two artifacts were added while the scoreboard was only deleted: the call
\* threw and its message lists both
C17_Witness ==
  /\ Parsed
  /\ TrackingThrew
  /\ Len(getAddedSpecArtifacts(entries.value)) = 2
  /\ ScoreboardStatuses = {<<"D">>}
  /\ Contains(tracking.value.message, <<"  - ">> \o PlanningPath(<<"mvvp", ".md">>))
  /\ Contains(tracking.value.message, <<"  - ">> \o PlanningPath(<<"phase-4", ".md">>))

\* an artifact was added and the scoreboard modified: the call returned
C17_WitnessPaired ==
  /\ Parsed
  /\ Enforced
  /\ Len(getAddedSpecArtifacts(entries.value)) = 1
  /\ ScoreboardStatuses = {<<"M">>}
  /\ tracking.value = ReturnedVoid

------------------------------------------------------------------------------
\* check-implementation-scoreboard.ts: the scoreboard, its validation, its
\* counts and the parity report

MaxCapabilities == 2

AllowedStates == <<Str("spec-only"), Str("scaffold"), Str("operational")>>

TypeError == <<"TypeError">>

ReturnedValue(value) == [kind |-> "returned", value |-> value]

\* ${value} in a template literal
Interpolate(v) == IF v.k \in {"string", "number"} THEN v.s ELSE <<v.k>>

\* a loop that never looks an id up in the Set
RECURSIVE ValidateFrom_keepsDuplicates(_, _, _)
ValidateFrom_keepsDuplicates(capabilities, i, ids) ==
  IF i > Len(capabilities) THEN ReturnedVoid
  ELSE
    LET capability == capabilities[i]
        id == Get(capability, "id")
        state == Get(capability, "state")
    IN
    IF Falsy(id) \/ Falsy(Get(capability, "description"))
    THEN Threw(<<"Each capability requires non-empty id and description fields.">>)
    ELSE IF ~(\E k \in DOMAIN AllowedStates : state = JStr(AllowedStates[k]))
    THEN Threw(<<"Capability ">> \o Interpolate(id) \o <<" has invalid state \"">>
                 \o Interpolate(state) \o <<"\". ", "Expected one of: ">>
                 \o joinStrings(AllowedStates, ", ") \o <<".">>)
    ELSE ValidateFrom_keepsDuplicates(capabilities, i + 1, ids \cup {id})

\* the loop of validateScoreboard from capability i on, ids being the Set
RECURSIVE ValidateFrom(_, _, _)
\* a loop that checks the state before it looks the id up in the Set
RECURSIVE ValidateFrom_stateFirst(_, _, _)
ValidateFrom_stateFirst(capabilities, i, ids) ==
  IF i > Len(capabilities) THEN ReturnedVoid
  ELSE
    LET capability == capabilities[i]
        id == Get(capability, "id")
        state == Get(capability, "state")
    IN
    IF Falsy(id) \/ Falsy(Get(capability, "description"))
    THEN Threw(<<"Each capability requires non-empty id and description fields.">>)
    ELSE IF ~(\E k \in DOMAIN AllowedStates : state = JStr(AllowedStates[k]))
    THEN Threw(<<"Capability ">> \o Interpolate(id) \o <<" has invalid state \"">>
                 \o Interpolate(state) \o <<"\". ", "Expected one of: ">>
                 \o joinStrings(AllowedStates, ", ") \o <<".">>)
    ELSE IF id \in ids
    THEN Threw(<<"Duplicate capability id", " found: ">> \o Interpolate(id))
    ELSE ValidateFrom_stateFirst(capabilities, i + 1, ids \cup {id})

ValidateFrom(capabilities, i, ids) ==
  IF i > Len(capabilities) THEN ReturnedVoid
  ELSE
    LET capability == capabilities[i]
        id == Get(capability, "id")
        state == Get(capability, "state")
    IN
    IF Falsy(id) \/ Falsy(Get(capability, "description"))
    THEN Threw(<<"Each capability requires non-empty id and description fields.">>)
    ELSE IF id \in ids
    THEN Threw(<<"Duplicate capability id", " found: ">> \o Interpolate(id))
    ELSE IF ~(\E k \in DOMAIN AllowedStates : state = JStr(AllowedStates[k]))
    THEN Threw(<<"Capability ">> \o Interpolate(id) \o <<" has invalid state \"">>
                 \o Interpolate(state) \o <<"\". ", "Expected one of: ">>
                 \o joinStrings(AllowedStates, ", ") \o <<".">>)
    ELSE ValidateFrom(capabilities, i + 1, ids \cup {id})

validateScoreboard(board) ==
  IF PropertyReadThrows(board) THEN Threw(TypeError)
  ELSE LET capabilities == Get(board, "capabilities") IN
       IF ~IsArray(capabilities) \/ Len(capabilities.e) = 0
       THEN Threw(<<"implementation-scoreboard.json must contain at least one capability.">>)
       ELSE ValidateFrom(capabilities.e, 1, {})

\* the result of undefined + 1, which no further += 1 changes
NaN == -1

\* the property key a state value is converted to
PropertyKey(v) == IF v.k = "string" /\ v.s # <<>> THEN v.s[1] ELSE v.k

\* counts[capability.state] += 1
Increment(tally, key) ==
  IF key \in DOMAIN tally
  THEN [tally EXCEPT ![key] = IF @ = NaN THEN NaN ELSE @ + 1]
  ELSE tally @@ (key :> NaN)

RECURSIVE CountFrom(_, _)
CountFrom(tally, capabilities) ==
  IF capabilities = <<>> THEN tally
  ELSE CountFrom(Increment(tally, PropertyKey(Get(Head(capabilities), "state"))),
                 Tail(capabilities))

\* a count that leaves out the states no capability is in
getScoreCounts_omitsZero(board) ==
  IF PropertyReadThrows(board) \/ ~IsArray(Get(board, "capabilities"))
  THEN Threw(TypeError)
  ELSE LET tally == CountFrom([key \in {"spec-only", "scaffold", "operational"} |-> 0],
                              Get(board, "capabilities").e)
       IN ReturnedValue([key \in {k \in DOMAIN tally : tally[k] # 0} |-> tally[key]])

getScoreCounts(board) ==
  IF PropertyReadThrows(board) \/ ~IsArray(Get(board, "capabilities"))
  THEN Threw(TypeError)
  ELSE ReturnedValue(
         CountFrom([key \in {"spec-only", "scaffold", "operational"} |-> 0],
                   Get(board, "capabilities").e))

\* ${number} in a template literal
Numeral(n) == IF n = NaN THEN "NaN" ELSE ToString(n)

\* renderSummaryMarkdown, for a scoreboard getScoreCounts returns on
renderSummaryMarkdown(board) ==
  LET tally == getScoreCounts(board).value
      total == Len(Get(board, "capabilities").e)
  IN joinStrings(
       << <<"- Capabilities tracked: **", Numeral(total), "**">>,
          <<"- Operational: **", Numeral(tally["operational"]), "**">>,
          <<"- Scaffold: **", Numeral(tally["scaffold"]), "**">>,
          <<"- Spec-only: **", Numeral(tally["spec-only"]), "**">>,
          <<"- Implementation ratio (operational/total): **",
            Numeral(tally["operational"]), "/", Numeral(total), "**">> >>,
       "\n")

\* the ids of the scoreboards examined, in the order localeCompare gives them
\* (lower-case letters, on which collation and code units agree)
LocaleOrder == << <<>>, <<"a">>, <<"b">>, <<"z">> >>

LocaleRank(s) == CHOOSE i \in DOMAIN LocaleOrder : LocaleOrder[i] = s

localeCompare(s, t) ==
  IF LocaleRank(s) < LocaleRank(t) THEN -1
  ELSE IF LocaleRank(s) > LocaleRank(t) THEN 1 ELSE 0

\* a stable insertion of capability x into a list sorted by id
RECURSIVE InsertById(_, _)
InsertById(x, sorted) ==
  IF sorted = <<>> THEN <<x>>
  ELSE IF localeCompare(Get(x, "id").s, Get(Head(sorted), "id").s) < 0
       THEN <<x>> \o sorted
       ELSE <<Head(sorted)>> \o InsertById(x, Tail(sorted))

\* a copy left in the order of the input
toSortedById_inputOrder(list) == list

\* toSorted((a, b) => a.id.localeCompare(b.id))
RECURSIVE toSortedById(_)
toSortedById(list) ==
  IF list = <<>> THEN <<>>
  ELSE InsertById(list[Len(list)], toSortedById(SubSeq(list, 1, Len(list) - 1)))

buildParityReport(board) ==
  LET tally == getScoreCounts(board) IN
  IF tally.kind = "threw" THEN tally
  ELSE ReturnedValue(
         [generatedAt |-> <<"1970-01-01T00:00:00.000Z">>,
          scoreboardVersion |-> Get(board, "version"),
          summary |-> renderSummaryMarkdown(board),
          counts |-> tally.value,
          totalCapabilities |-> Len(Get(board, "capabilities").e),
          capabilities |-> toSortedById(Get(board, "capabilities").e)])

\* the scoreboards examined
Capability(id, description, state) ==
  JObj([id |-> JStr(id), description |-> JStr(description), state |-> JStr(state)])

Capabilities ==
  { Capability(<<"a">>, <<"First">>, Str("operational")),
    Capability(<<"z">>, <<"Last">>, Str("scaffold")),
    Capability(<<"b">>, <<"B">>, Str("spec-only")),
    Capability(<<"a">>, <<"Other">>, Str("scaffold")),
    Capability(<<>>, <<"A">>, Str("operational")),
    Capability(<<"z">>, <<>>, Str("operational")),
    Capability(<<"z">>, <<"Last">>, Str("planned")),
    JObj([id |-> JStr(<<"b">>), state |-> JStr(Str("spec-only"))]) }

Versions == {JNum(<<"1">>), JNum(<<"2">>)}

Scoreboards ==
  { JObj([version |-> v, capabilities |-> JArr(c)]) :
      v \in Versions, c \in SeqsUpTo(Capabilities, MaxCapabilities) }
  \cup { JObj([version |-> v]) : v \in Versions }
  \cup { JNull }

\* the scoreboards that differ from board in the order of capabilities only
Reorderings(board) ==
  IF board.k = "object" /\ IsArray(Get(board, "capabilities"))
  THEN LET list == board.f.capabilities.e IN
       { JObj([board.f EXCEPT !.capabilities =
                 JArr([i \in DOMAIN list |-> list[p[i]]])]) :
           p \in Permutations(DOMAIN list) }
  ELSE {board}

InitBoard ==
  /\ EngineOff
  /\ DiffOff
  /\ CliOff
  /\ scoreboard \in Scoreboards
  /\ reordered \in Reorderings(scoreboard)
  /\ validation = Pending
  /\ counts = Pending
  /\ report = Pending
  /\ reportReordered = Pending

Validate ==
  /\ validation = Pending
  /\ validation' = Done(validateScoreboard(scoreboard))
  /\ UNCHANGED <<engineVars, diffVars, cliVars, scoreboard, reordered, counts, report, reportReordered>>

CountStates ==
  /\ counts = Pending
  /\ counts' = Done(getScoreCounts(scoreboard))
  /\ UNCHANGED <<engineVars, diffVars, cliVars, scoreboard, reordered, validation, report, reportReordered>>

\* the spread copy is sorted, the scoreboard passed in is not written to
BuildReport ==
  /\ report = Pending
  /\ report' = Done(buildParityReport(scoreboard))
  /\ UNCHANGED <<engineVars, diffVars, cliVars, scoreboard, reordered, validation, counts, reportReordered>>

BuildReportReordered ==
  /\ reportReordered = Pending
  /\ reportReordered' = Done(buildParityReport(reordered))
  /\ UNCHANGED <<engineVars, diffVars, cliVars, scoreboard, reordered, validation, counts, report>>

NextBoard ==
  \/ Validate
  \/ CountStates
  \/ BuildReport
  \/ BuildReportReordered

SpecBoard == InitBoard /\ [][NextBoard]_vars

------------------------------------------------------------------------------
\* What the claims about the scoreboard speak of

Validated == validation # Pending
ValidationThrew == Validated /\ validation.value.kind = "threw"

\* the scoreboard holds a capabilities array
HasCapabilityList(board) ==
  /\ board.k = "object"
  /\ "capabilities" \in DOMAIN board.f
  /\ board.f.capabilities.k = "array"

CapabilityList(board) == board.f.capabilities.e

\* the capability has the field, a string that is not empty
NonEmptyField(capability, name) ==
  /\ name \in DOMAIN capability.f
  /\ capability.f[name].k = "string"
  /\ capability.f[name].s # <<>>

\* the capability's state is one of the three
KnownState(capability) ==
  /\ "state" \in DOMAIN capability.f
  /\ capability.f.state \in {JStr(Str("spec-only")), JStr(Str("scaffold")),
                             JStr(Str("operational"))}

\* capabilities i and j carry the same id
SameId(list, i, j) ==
  /\ "id" \in DOMAIN list[i].f
  /\ "id" \in DOMAIN list[j].f
  /\ list[i].f.id = list[j].f.id

WellFormed(board) ==
  /\ HasCapabilityList(board)
  /\ Len(CapabilityList(board)) >= 1
  /\ \A i \in DOMAIN CapabilityList(board) :
       /\ NonEmptyField(CapabilityList(board)[i], "id")
       /\ NonEmptyField(CapabilityList(board)[i], "description")
       /\ KnownState(CapabilityList(board)[i])
  /\ \A i, j \in DOMAIN CapabilityList(board) :
       i < j => ~SameId(CapabilityList(board), i, j)

\* the error is "Duplicate capability id" and names the id
DuplicateErrorNaming(id) ==
  /\ ValidationThrew
  /\ Contains(validation.value.message, <<"Duplicate capability id">>)
  /\ Contains(validation.value.message, <<" found: ">> \o id.s)

\* C18 as stated: validateScoreboard returns silently exactly for a
\* well-formed scoreboard and throws otherwise, and for any two capabilities
\* sharing an id the error is "Duplicate capability id" naming that id.
C18_DuplicateAlwaysReported ==
  Validated =>
    /\ validation.value = ReturnedVoid <=> WellFormed(scoreboard)
    /\ ~WellFormed(scoreboard) => ValidationThrew
    /\ HasCapabilityList(scoreboard) =>
         \A i, j \in DOMAIN CapabilityList(scoreboard) :
           (i < j /\ SameId(CapabilityList(scoreboard), i, j)) =>
             DuplicateErrorNaming(CapabilityList(scoreboard)[j].f.id)

\* capability k passes every check of the loop
Sound(list, k) ==
  /\ NonEmptyField(list[k], "id")
  /\ NonEmptyField(list[k], "description")
  /\ KnownState(list[k])
  /\ \A i \in 1..(k - 1) : ~SameId(list, i, k)

\* C18 amended: validateScoreboard returns silently exactly when capabilities
\* is a non-empty array whose capabilities all have a non-empty id and
\* description, pairwise distinct ids and a state among the three, and throws
\* otherwise; when a capability repeats the id of an earlier one, has a
\* non-empty id and description itself, and every capability before it passes
\* all checks, the error is "Duplicate capability id" naming that id.
C18_DuplicateReportedWhenFirstFailure ==
  Validated =>
    /\ validation.value = ReturnedVoid <=> WellFormed(scoreboard)
    /\ ~WellFormed(scoreboard) => ValidationThrew
    /\ HasCapabilityList(scoreboard) =>
         \A i, j \in DOMAIN CapabilityList(scoreboard) :
           (/\ i < j
            /\ SameId(CapabilityList(scoreboard), i, j)
            /\ NonEmptyField(CapabilityList(scoreboard)[j], "id")
            /\ NonEmptyField(CapabilityList(scoreboard)[j], "description")
            /\ \A k \in 1..(j - 1) : Sound(CapabilityList(scoreboard), k)) =>
             DuplicateErrorNaming(CapabilityList(scoreboard)[j].f.id)

\* the second capability repeats the id of the first and has an unknown state
\* as well: the duplicate is what the error reports
C18_Witness ==
  /\ HasCapabilityList(scoreboard)
  /\ Len(CapabilityList(scoreboard)) = 2
  /\ SameId(CapabilityList(scoreboard), 1, 2)
  /\ ~KnownState(CapabilityList(scoreboard)[2])
  /\ DuplicateErrorNaming(JStr(<<"z">>))

\* a scoreboard of two sound capabilities was accepted
C18_WitnessAccepted ==
  /\ Validated
  /\ WellFormed(scoreboard)
  /\ Len(CapabilityList(scoreboard)) = 2
  /\ validation.value = ReturnedVoid

Counted == counts # Pending

\* the scoreboard is a value of the declared type Scoreboard: capabilities is
\* an array of capabilities with string id and description and a ScoreState
Typed(board) ==
  /\ HasCapabilityList(board)
  /\ \A i \in DOMAIN CapabilityList(board) :
       /\ "id" \in DOMAIN CapabilityList(board)[i].f
       /\ CapabilityList(board)[i].f.id.k = "string"
       /\ "description" \in DOMAIN CapabilityList(board)[i].f
       /\ CapabilityList(board)[i].f.description.k = "string"
       /\ KnownState(CapabilityList(board)[i])

\* the number of capabilities in the state
InState(board, state) ==
  Cardinality({ i \in DOMAIN CapabilityList(board) :
                  CapabilityList(board)[i].f.state = JStr(Str(state)) })

\* C19: for a scoreboard of the declared type, getScoreCounts returns a record
\* with exactly the three keys spec-only, scaffold and operational, each
\* present even when its count is zero, and no other key; each value is the
\* number of capabilities in that state.
C19_CountsHaveExactlyThreeKeys ==
  (Counted /\ Typed(scoreboard)) =>
    /\ counts.value.kind = "returned"
    /\ DOMAIN counts.value.value = {"spec-only", "scaffold", "operational"}
    /\ \A state \in {"spec-only", "scaffold", "operational"} :
         counts.value.value[state] = InState(scoreboard, state)

\* two capabilities in one state: the other two states are counted as zero
C19_Witness ==
  /\ Counted
  /\ Typed(scoreboard)
  /\ Len(CapabilityList(scoreboard)) = 2
  /\ counts.value = ReturnedValue([operational |-> 2, scaffold |-> 0]
                                    @@ ("spec-only" :> 0))

\* outside the declared type: a state that is none of the three gets a key of
\* its own, whose value is no count
C19_UntypedStateAddsKey ==
  /\ Counted
  /\ HasCapabilityList(scoreboard)
  /\ ~Typed(scoreboard)
  /\ counts.value.kind = "returned"
  /\ "planned" \in DOMAIN counts.value.value
  /\ counts.value.value["planned"] = NaN

Reported == report # Pending
ReportedReordered == reportReordered # Pending

\* list a holds the elements of list b, each as often as b does
PermutationOf(a, b) ==
  /\ Len(a) = Len(b)
  /\ \E p \in Permutations(DOMAIN a) : \A i \in DOMAIN a : a[i] = b[p[i]]

\* the capabilities follow one another by id, ascending
AscendingById(list) ==
  \A i, j \in DOMAIN list :
    i < j => localeCompare(list[i].f.id.s, list[j].f.id.s) <= 0

\* no two capabilities of the scoreboard share an id
DistinctIds(board) ==
  \A i, j \in DOMAIN CapabilityList(board) :
    i < j => ~SameId(CapabilityList(board), i, j)

\* the report is the one the claim describes for the scoreboard
ReportDescribes(result, board) ==
  /\ result.kind = "returned"
  /\ result.value.generatedAt = <<"1970-01-01T00:00:00.000Z">>
  /\ result.value.scoreboardVersion = board.f.version
  /\ result.value.totalCapabilities = Len(CapabilityList(board))
  /\ PermutationOf(result.value.capabilities, CapabilityList(board))
  /\ AscendingById(result.value.capabilities)

\* no step writes to the scoreboard passed in
InputUntouched == scoreboard' = scoreboard /\ reordered' = reordered

\* C20 as stated: for every ordering of the capabilities of a scoreboard of
\* the declared type, buildParityReport returns generatedAt
\* "1970-01-01T00:00:00.000Z", the input's version, the number of capabilities
\* and the capabilities sorted by id ascending; two inputs that differ only in
\* the order of capabilities give the same report; the input is left unchanged.
C20_ReportIndependentOfOrder ==
  /\ [](/\ (Reported /\ Typed(scoreboard)) =>
              ReportDescribes(report.value, scoreboard)
        /\ (ReportedReordered /\ Typed(reordered)) =>
              ReportDescribes(reportReordered.value, reordered)
        /\ (Reported /\ ReportedReordered /\ Typed(scoreboard)) =>
              report.value = reportReordered.value)
  /\ [][InputUntouched]_vars

\* C20 amended: the same, but two inputs that differ only in the order of
\* capabilities give the same report when their ids are pairwise distinct;
\* capabilities that share an id keep the order the input gave them.
C20_ReportIndependentOfOrderForDistinctIds ==
  /\ [](/\ (Reported /\ Typed(scoreboard)) =>
              ReportDescribes(report.value, scoreboard)
        /\ (ReportedReordered /\ Typed(reordered)) =>
              ReportDescribes(reportReordered.value, reordered)
        /\ (Reported /\ ReportedReordered /\ Typed(scoreboard)
              /\ DistinctIds(scoreboard)) =>
              report.value = reportReordered.value
        /\ (Reported /\ Typed(scoreboard)) =>
              \A i, j \in DOMAIN CapabilityList(scoreboard) :
                (i < j /\ SameId(CapabilityList(scoreboard), i, j)) =>
                  \E k, l \in DOMAIN report.value.value.capabilities :
                    /\ k < l
                    /\ report.value.value.capabilities[k] = CapabilityList(scoreboard)[i]
                    /\ report.value.value.capabilities[l] = CapabilityList(scoreboard)[j])
  /\ [][InputUntouched]_vars

\* the capabilities z, a and their reversal a, z gave one and the same report
C20_Witness ==
  /\ Reported
  /\ ReportedReordered
  /\ Typed(scoreboard)
  /\ Len(CapabilityList(scoreboard)) = 2
  /\ CapabilityList(scoreboard)[1].f.id = JStr(<<"z">>)
  /\ CapabilityList(scoreboard)[2].f.id = JStr(<<"a">>)
  /\ CapabilityList(reordered)[1].f.id = JStr(<<"a">>)
  /\ report.value.value.capabilities[1].f.id = JStr(<<"a">>)
  /\ report.value = reportReordered.value

------------------------------------------------------------------------------
\* What the claims about the order of the gates speak of

\* gate k, taken by itself, would refuse the call
GateFails(k, adapterName, action) ==
  CASE k = 1 -> ~PolicyReadable
    [] k = 2 -> PolicyReadable /\ ~ModeIsEnforce
    [] k = 3 -> ~ContractsReadable
    [] k = 4 -> ContractsReadable /\ ~AdaptersIsArray
    [] k = 5 -> AdaptersIsArray /\ Named(adapterName) = {}
    [] k = 6 -> Unconstrained(adapterName)
    [] k = 7 -> PolicyReadable /\ ~AllowedIsArray
    [] OTHER -> AllowedIsArray /\ ~AllowedHolds(action)

FailingGates(adapterName, action) ==
  { k \in 1..8 : GateFails(k, adapterName, action) }

LowestFailingGate(adapterName, action) ==
  CHOOSE k \in FailingGates(adapterName, action) :
    \A l \in FailingGates(adapterName, action) : k <= l

\* the words by which the reason of gate k is told from the others
GateReason(k) ==
  CASE k = 1 -> <<"failed", "to", "read", "command-policy.json", ":">>
    [] k = 2 -> <<"command-policy", "enforcementMode", "is">>
    [] k = 3 -> <<"failed", "to", "read", "adapter-contracts.json", ":">>
    [] k = 4 -> <<"adapters", "is", "not", "an", "array">>
    [] k = 5 -> <<"not", "found", "in", "adapter-contracts.json">>
    [] k = 6 -> <<"has", "no", "constraints", "defined">>
    [] k = 7 -> <<"allowedActions", "is", "not", "an", "array">>
    [] OTHER -> <<"is", "not", "in", "allowedActions">>

\* the outcome the same call has when the adapter contracts file is not there
OutcomeWithoutContracts ==
  [call |-> outcome.call]
    @@ enforcePolicyGatedAdapter(policyFile, Missing, outcome.call.adapterName,
                                 outcome.call.action, FirstInstant)

\* C23: the gates are taken in the order load policy, enforcementMode, load
\* contracts, adapters is array, adapter found, constraints non-empty,
\* allowedActions is array, action allowed: a returned decision is FAIL exactly
\* when some gate fails and its reason is then that of the lowest-numbered
\* failing gate and of no other; when gate 1 or 2 fails the adapter contracts
\* file has no influence: the outcome is the one of a call without that file.
C23_LowestFailingGateDecides ==
  Called =>
    LET failing == FailingGates(outcome.call.adapterName, outcome.call.action) IN
    /\ ReturnedDecision =>
         /\ Failed <=> failing # {}
         /\ Failed =>
              \A k \in 1..8 :
                Contains(outcome.decision.reason, GateReason(k))
                  <=> k = LowestFailingGate(outcome.call.adapterName, outcome.call.action)
    /\ (1 \in failing \/ 2 \in failing) => outcome = OutcomeWithoutContracts

\* the mode, the contracts file and allowedActions are all at fault: the
\* reason is the one of the mode gate
C23_Witness ==
  /\ Failed
  /\ FailingGates(outcome.call.adapterName, outcome.call.action) = {2, 4, 7}
  /\ Contains(outcome.decision.reason, GateReason(2))

\* the gates of the adapter contracts come before those of allowedActions
C23_WitnessAdapterBeforeAction ==
  /\ Failed
  /\ FailingGates(outcome.call.adapterName, outcome.call.action) = {6, 8}
  /\ Contains(outcome.decision.reason, GateReason(6))

------------------------------------------------------------------------------
\* the file that is authoritative for gate k
AuthoritativePath(k) ==
  IF k \in {1, 2, 7, 8} THEN COMMAND_POLICY_PATH ELSE ADAPTER_CONTRACTS_PATH

\* C24: on every FAIL decision the evidence is exactly one file path: the
\* command policy path when the policy cannot be loaded, the mode is not
\* "enforce", allowedActions is not an array or the action is not allowed;
\* the adapter contracts path when the contracts cannot be loaded, adapters is
\* not an array, the adapter is not found or it has no constraints.
C24_EvidenceIsAuthoritativeFile ==
  Failed =>
    /\ outcome.decision.evidence \in {COMMAND_POLICY_PATH, ADAPTER_CONTRACTS_PATH}
    /\ \E k \in 1..8 : Contains(outcome.decision.reason, GateReason(k))
    /\ \A k \in 1..8 :
         Contains(outcome.decision.reason, GateReason(k))
           => /\ GateFails(k, outcome.call.adapterName, outcome.call.action)
              /\ outcome.decision.evidence = AuthoritativePath(k)

\* a refusal by the constraints gate, in evidence the adapter contracts path
C24_Witness ==
  /\ Failed
  /\ Contains(outcome.decision.reason, GateReason(6))
  /\ outcome.decision.evidence = ADAPTER_CONTRACTS_PATH

\* each of the eight gates refuses some call
C24_WitnessGate1 == Failed /\ Contains(outcome.decision.reason, GateReason(1))
C24_WitnessGate2 == Failed /\ Contains(outcome.decision.reason, GateReason(2))
C24_WitnessGate3 == Failed /\ Contains(outcome.decision.reason, GateReason(3))
C24_WitnessGate4 == Failed /\ Contains(outcome.decision.reason, GateReason(4))
C24_WitnessGate5 == Failed /\ Contains(outcome.decision.reason, GateReason(5))
C24_WitnessGate7 == Failed /\ Contains(outcome.decision.reason, GateReason(7))
C24_WitnessGate8 == Failed /\ Contains(outcome.decision.reason, GateReason(8))

------------------------------------------------------------------------------
\* the value the policy document holds under policyVersion, Undefined when none
ObservedVersion ==
  IF policyFile.doc.k = "object" /\ "policyVersion" \in DOMAIN policyFile.doc.f
  THEN policyFile.doc.f.policyVersion ELSE Undefined

\* the value when it is a string, "unknown" otherwise
StringOrUnknown(value) ==
  IF value.k = "string" THEN value.s ELSE Str("unknown")

\* C25: when the command policy cannot be read or parsed the call returns FAIL
\* with policyVersion = enforcementMode = "unknown" and a reason holding
\* "failed to read command-policy.json" and the text of the read error; when
\* the policy is readable, policyVersion and enforcementMode of every decision
\* are the document's values when these are strings and "unknown" otherwise.
C25_VersionAndModeOrUnknown ==
  Called =>
    /\ ~PolicyReadable =>
         /\ Failed
         /\ outcome.decision.policyVersion = Str("unknown")
         /\ outcome.decision.enforcementMode = Str("unknown")
         /\ Contains(outcome.decision.reason,
                     <<"failed", "to", "read", "command-policy.json">>)
         /\ Contains(outcome.decision.reason, readJson(policyFile).message)
    /\ (PolicyReadable /\ ReturnedDecision) =>
         /\ outcome.decision.policyVersion = StringOrUnknown(ObservedVersion)
         /\ outcome.decision.enforcementMode = StringOrUnknown(ObservedMode)

\* the policy file is absent
C25_Witness ==
  /\ Failed
  /\ policyFile = Missing
  /\ outcome.decision.enforcementMode = Str("unknown")

\* a readable policy whose mode is a number and whose version is a string
C25_WitnessNumberMode ==
  /\ ReturnedDecision
  /\ PolicyReadable
  /\ ObservedMode.k = "number"
  /\ ObservedVersion.k = "string"
  /\ outcome.decision.enforcementMode = Str("unknown")
  /\ outcome.decision.policyVersion = ObservedVersion.s

\* a policy that does not parse
C25_WitnessInvalid ==
  /\ Failed
  /\ policyFile = Invalid
  /\ Contains(outcome.decision.reason, <<"Unexpected", "token", "in", "JSON">>)

------------------------------------------------------------------------------
\* the elements of a sequence at the positions of a set, in their order
RECURSIVE Select(_, _, _)
Select(list, keep, i) ==
  IF i > Len(list) THEN <<>>
  ELSE (IF i \in keep THEN <<list[i]>> ELSE <<>>) \o Select(list, keep, i + 1)

\* the positions of the adapters array that bear the requested name after the
\* first one that does
LaterNamed(adapterName) ==
  { i \in Named(adapterName) : \E j \in Named(adapterName) : j < i }

\* the contracts file with every later adapter of that name taken out
ContractsWithoutLaterNamed(adapterName) ==
  File(JObj([f \in DOMAIN contractsFile.doc.f |->
    IF f = "adapters"
    THEN JArr(Select(AdaptersArray,
                     (DOMAIN AdaptersArray) \ LaterNamed(adapterName), 1))
    ELSE contractsFile.doc.f[f]]))

\* C26: of several adapters with the requested name only the first in array
\* order is used: the outcome is the one of the same call on the contracts
\* with every later adapter of that name removed; a first match without
\* constraints yields FAIL whatever the later ones hold, and a repeated name
\* is never by itself a reason to refuse.
C26_FirstNamedAdapterDecides ==
  (Called /\ AdaptersIsArray) =>
    LET adapterName == outcome.call.adapterName IN
    /\ outcome = [call |-> outcome.call]
          @@ enforcePolicyGatedAdapter(policyFile, ContractsWithoutLaterNamed(adapterName),
                                       adapterName, outcome.call.action, FirstInstant)
    /\ (ModeIsEnforce /\ Unconstrained(adapterName)) =>
          Failed /\ Contains(outcome.decision.reason, GateReason(6))
    /\ (LaterNamed(adapterName) # {} /\ AllGatesHold(adapterName, outcome.call.action))
          => Passed

\* the first repo-write has no constraints, the second has: FAIL
C26_Witness ==
  /\ Failed
  /\ Contains(outcome.decision.reason, GateReason(6))
  /\ \E i \in LaterNamed(outcome.call.adapterName) : Constrained(AdaptersArray[i])

\* the first repo-write has constraints, the second has none: PASS
C26_WitnessPass ==
  /\ Passed
  /\ \E i \in LaterNamed(outcome.call.adapterName) : ~Constrained(AdaptersArray[i])

------------------------------------------------------------------------------
\* What the claims about a run of the decision-engine CLI speak of

BothInputsPresent ==
  ~Falsy(env.GITHUB_MODE_ADAPTER) /\ ~Falsy(env.GITHUB_MODE_ACTION)

RunExited == pc = "exited"

\* the artifacts the arguments ask for, in the order they are asked for
RECURSIVE RequestedFrom(_, _)
RequestedFrom(args, i) ==
  IF i > Len(args) THEN <<>>
  ELSE IF args[i] = "--json-out" /\ i + 1 <= Len(args)
    THEN <<[path |-> args[i + 1], what |-> "json"]>> \o RequestedFrom(args, i + 2)
  ELSE IF args[i] = "--summary-out" /\ i + 1 <= Len(args)
    THEN <<[path |-> args[i + 1], what |-> "summary"]>> \o RequestedFrom(args, i + 2)
  ELSE RequestedFrom(args, i + 1)

Requested == RequestedFrom(argv, 1)

\* the summary, the marker and the decision JSON are on standard output
Emitted ==
  \E i \in DOMAIN printed :
    /\ i + 2 \in DOMAIN printed
    /\ printed[i] = Stdout("summary")
    /\ printed[i + 2] = Stdout("json")

\* the entry guard's catch ended the run
ErrorCaught == \E i \in DOMAIN printed : printed[i] = Stderr("error")

IsPrefix(s, t) == Len(s) <= Len(t) /\ s = SubSeq(t, 1, Len(s))

C28_WitnessFailDropped ==
  /\ RunExited
  /\ Failed
  /\ Len(written) = 1
  /\ Len(Requested) = 2
  /\ ~Emitted

\* a PASS decision emitted, exit 0
C28_WitnessPass ==
  /\ RunExited
  /\ Passed
  /\ Len(Requested) >= 1
  /\ written = Requested
  /\ Emitted
  /\ exitCode = 0

------------------------------------------------------------------------------
\* the first capability, in sequence order, that fails a check
FirstUnsound(list) ==
  CHOOSE k \in DOMAIN list :
    ~Sound(list, k) /\ \A i \in 1..(k - 1) : Sound(list, i)

\* the scoreboard cut after its k-th capability
CutAfter(board, k) ==
  JObj([board.f EXCEPT !.capabilities = JArr(SubSeq(CapabilityList(board), 1, k))])

MissingFieldError ==
  /\ ValidationThrew
  /\ validation.value.message
       = <<"Each capability requires non-empty id and description fields.">>

InvalidStateErrorNaming(id) ==
  /\ ValidationThrew
  /\ Contains(validation.value.message,
              <<"Capability ">> \o id.s \o <<" has invalid state \"">>)

\* C27: validateScoreboard reports a single error, the one of the first
\* capability in sequence order that fails a check, and of that capability
\* the first failing check in the order non-empty id and description,
\* duplicate id, valid state; the first occurrence of an id is accepted and
\* the later one is reported; nothing after the failing capability is looked
\* at: the outcome is the one of the scoreboard cut after it.
C27_FirstFailingCapabilityReported ==
  (/\ Validated
   /\ HasCapabilityList(scoreboard)
   /\ Len(CapabilityList(scoreboard)) >= 1
   /\ ~WellFormed(scoreboard)) =>
    LET list == CapabilityList(scoreboard)
        k == FirstUnsound(list)
    IN
    /\ ValidationThrew
    /\ validation.value = validateScoreboard(CutAfter(scoreboard, k))
    /\ IF ~(NonEmptyField(list[k], "id") /\ NonEmptyField(list[k], "description"))
         THEN MissingFieldError
       ELSE IF \E i \in 1..(k - 1) : SameId(list, i, k)
         THEN DuplicateErrorNaming(list[k].f.id)
       ELSE InvalidStateErrorNaming(list[k].f.id)

\* the second capability repeats the id of the first and has an unknown state:
\* the duplicate is reported, not the state
C27_Witness ==
  /\ ValidationThrew
  /\ HasCapabilityList(scoreboard)
  /\ Len(CapabilityList(scoreboard)) = 2
  /\ Sound(CapabilityList(scoreboard), 1)
  /\ SameId(CapabilityList(scoreboard), 1, 2)
  /\ ~KnownState(CapabilityList(scoreboard)[2])
  /\ DuplicateErrorNaming(CapabilityList(scoreboard)[2].f.id)

\* the first capability has an unknown state, the second lacks a description:
\* the state of the first is reported
C27_WitnessFirstOfTwo ==
  /\ HasCapabilityList(scoreboard)
  /\ Len(CapabilityList(scoreboard)) = 2
  /\ ~KnownState(CapabilityList(scoreboard)[1])
  /\ ~NonEmptyField(CapabilityList(scoreboard)[2], "description")
  /\ InvalidStateErrorNaming(CapabilityList(scoreboard)[1].f.id)

------------------------------------------------------------------------------
\* check-implementation-scoreboard.ts: the command line.
\* An argument is a token string cut after a leading "--" and, for a path, as
\* paths are cut.

\* Longest argument list that Init draws for parseCliOptions.
MaxCliArgs == 4

Flag(name) == <<"--", name>>

ReportFileUsage == <<"--report-file requires a file path argument.">>
ReportFormatUsage == <<"--report-format must be either 'json' or 'markdown'.">>

\* args[index + 1], undefined past the end (position is the loop's index)
ArgAfter(args, position) ==
  IF position + 2 <= Len(args) THEN JStr(args[position + 2]) ELSE Undefined

\* mutant: a --report-format without a usable value keeps the default
RECURSIVE ParseFrom_lenientFormat(_, _, _)
ParseFrom_lenientFormat(args, position, opts) ==
  IF position >= Len(args) THEN ReturnedValue(opts)
  ELSE
    LET arg == args[position + 1]
        value == ArgAfter(args, position)
    IN
    IF arg = Flag("summary")
      THEN ParseFrom_lenientFormat(args, position + 1, [opts EXCEPT !.summary = TRUE])
    ELSE IF arg = Flag("report-file")
      THEN IF Falsy(value) \/ startsWith(value.s, <<"--">>)
           THEN Threw(ReportFileUsage)
           ELSE ParseFrom_lenientFormat(args, position + 2,
                                        Spread(opts, [reportFile |-> value.s]))
    ELSE IF arg = Flag("report-format")
      THEN IF value # JStr(Str("json")) /\ value # JStr(Str("markdown"))
           THEN ParseFrom_lenientFormat(args, position + 1, opts)
           ELSE ParseFrom_lenientFormat(args, position + 2,
                                        [opts EXCEPT !.reportFormat = value.s])
    ELSE ParseFrom_lenientFormat(args, position + 1, opts)

\* the loop of parseCliOptions from args[index] on, position being index
RECURSIVE ParseFrom(_, _, _)
ParseFrom(args, position, opts) ==
  IF position >= Len(args) THEN ReturnedValue(opts)
  ELSE
    LET arg == args[position + 1]
        value == ArgAfter(args, position)
    IN
    IF arg = Flag("summary")
      THEN ParseFrom(args, position + 1, [opts EXCEPT !.summary = TRUE])
    ELSE IF arg = Flag("report-file")
      THEN IF Falsy(value) \/ startsWith(value.s, <<"--">>)
           THEN Threw(ReportFileUsage)
           ELSE ParseFrom(args, position + 2, Spread(opts, [reportFile |-> value.s]))
    ELSE IF arg = Flag("report-format")
      THEN IF value # JStr(Str("json")) /\ value # JStr(Str("markdown"))
           THEN Threw(ReportFormatUsage)
           ELSE ParseFrom(args, position + 2, [opts EXCEPT !.reportFormat = value.s])
    ELSE ParseFrom(args, position + 1, opts)

parseCliOptions(args) ==
  ParseFrom(args, 0, [summary |-> FALSE, reportFormat |-> Str("markdown")])

\* the argument words drawn
ReportPath == <<"tmp", "/", "parity-report", ".json">>

CliWords ==
  { Flag("summary"), Flag("report-file"), Flag("report-format"), Flag("verbose"),
    Str("json"), Str("markdown"), Str("yaml"), ReportPath, <<>> }

InitOptions ==
  /\ policyFile = Missing
  /\ contractsFile = Missing
  /\ outcome = NotCalled
  /\ pinned = NotPinned
  /\ env = [GITHUB_MODE_ADAPTER |-> Undefined, GITHUB_MODE_ACTION |-> Undefined]
  /\ argv \in SeqsUpTo(CliWords, MaxCliArgs)
  /\ pc = "off"
  /\ index = 0
  /\ exitCode = 0
  /\ written = <<>>
  /\ printed = <<>>
  /\ DiffOff
  /\ BoardOff

ParseOptions ==
  /\ options = Pending
  /\ options' = Done(parseCliOptions(argv))
  /\ UNCHANGED <<engineVars, diffVars, scoreboard, reordered, validation, counts,
                 report, reportReordered, repository, baseRef, scoreboardFile>>

NextOptions == ParseOptions

SpecOptions == InitOptions /\ [][NextOptions]_vars

------------------------------------------------------------------------------
\* What the claims about the command line speak of

OptionsParsed == options # Pending
OptionsReturned == OptionsParsed /\ options.value.kind = "returned"
OptionsThrew == OptionsParsed /\ options.value.kind = "threw"

FlagAt(i, name) == i \in DOMAIN argv /\ argv[i] = Flag(name)
FlagGiven(name) == \E i \in DOMAIN argv : FlagAt(i, name)

\* the argument after position i is there and is not the empty string
HasArgAfter(i) == i + 1 \in DOMAIN argv /\ argv[i + 1] # <<>>

\* --report-file at i without a path after it
ReportFileUnusable(i) ==
  FlagAt(i, "report-file") /\ (~HasArgAfter(i) \/ Head(argv[i + 1]) = "--")

\* --report-format at i without json or markdown after it
ReportFormatUnusable(i) ==
  FlagAt(i, "report-format")
    /\ ~(i + 1 \in DOMAIN argv /\ argv[i + 1] \in {Str("json"), Str("markdown")})

Unusable(i) == ReportFileUnusable(i) \/ ReportFormatUnusable(i)

\* the position of the last --report-file
LastReportFile ==
  CHOOSE i \in DOMAIN argv :
    FlagAt(i, "report-file") /\ \A j \in DOMAIN argv : FlagAt(j, "report-file") => j <= i

\* C21: parseCliOptions returns reportFormat "markdown" when --report-format
\* is absent and summary false when --summary is absent; a --report-format
\* followed by anything but "json" or "markdown", or by nothing, makes it throw
\* a usage error; so does a --report-file followed by nothing or by a value
\* starting with "--"; a --report-file followed by a path sets reportFile to
\* that path (of several, the last one stands).
C21_OptionsDefaultsAndUsageErrors ==
  OptionsParsed =>
    /\ OptionsReturned <=> ~\E i \in DOMAIN argv : Unusable(i)
    /\ OptionsThrew =>
         LET first == CHOOSE i \in DOMAIN argv :
                        Unusable(i) /\ \A j \in 1..(i - 1) : ~Unusable(j)
         IN options.value.message
              = IF ReportFormatUnusable(first) THEN ReportFormatUsage ELSE ReportFileUsage
    /\ OptionsReturned =>
         /\ ~FlagGiven("summary") => options.value.value.summary = FALSE
         /\ ~FlagGiven("report-format") => options.value.value.reportFormat = Str("markdown")
         /\ FlagGiven("report-file") <=> "reportFile" \in DOMAIN options.value.value
         /\ FlagGiven("report-file") =>
              options.value.value.reportFile = argv[LastReportFile + 1]

\* the call of the test: --report-file tmp/parity-report.json --report-format json
C21_Witness ==
  /\ OptionsReturned
  /\ argv = <<Flag("report-file"), ReportPath, Flag("report-format")>> \o <<Str("json")>>
  /\ options.value.value
       = [summary |-> FALSE, reportFile |-> ReportPath, reportFormat |-> Str("json")]

\* --report-format yaml throws
C21_WitnessYaml ==
  /\ OptionsThrew
  /\ argv = <<Flag("report-format"), Str("yaml")>>
  /\ options.value.message = ReportFormatUsage

\* --report-file as the last argument throws
C21_WitnessNoPath ==
  /\ OptionsThrew
  /\ argv = <<Flag("summary"), Flag("report-file")>>
  /\ options.value.message = ReportFileUsage

\* no flag at all: the defaults, no reportFile
C21_WitnessDefaults ==
  /\ OptionsReturned
  /\ argv = <<>>
  /\ options.value.value = [summary |-> FALSE, reportFormat |-> Str("markdown")]

------------------------------------------------------------------------------
\* check-implementation-scoreboard.ts: main and the entry guard

OriginRef(branch) == <<"origin/", branch>>
HeadParent == Str("HEAD~1")

\* mutant: origin/master is tried before origin/main
determineBaseRef_masterFirst(repo) ==
  IF OriginRef("master") \in repo.verifies THEN OriginRef("master")
  ELSE IF OriginRef("main") \in repo.verifies THEN OriginRef("main")
  ELSE HeadParent

\* the loop over ["main", "master"]: the first branch whose origin ref verifies
RECURSIVE FirstVerified(_, _)
FirstVerified(repo, branches) ==
  IF branches = <<>> THEN HeadParent
  ELSE IF OriginRef(Head(branches)) \in repo.verifies THEN OriginRef(Head(branches))
  ELSE FirstVerified(repo, Tail(branches))

determineBaseRef(repo) == FirstVerified(repo, <<"main", "master">>)

\* execSync(`git diff --name-status ${baseRef}...HEAD`): it throws or prints
DiffFails == [ok |-> FALSE]
DiffPrints(text) == [ok |-> TRUE, output |-> text]

getDiffEntries(repo) ==
  LET run == repo.diff[determineBaseRef(repo)] IN
  IF ~run.ok THEN <<>>
  ELSE LET text == trim(run.output) IN
       IF text = <<>> THEN <<>> ELSE parseDiffEntries(text)

\* the checkouts examined: a spec artifact added alone, and added together
\* with a scoreboard update
UnpairedAddition ==
  DiffText(<< << <<"A">>, PlanningPath(<<"phase-4", ".md">>) >> >>) \o <<"\n">>
PairedAddition ==
  DiffText(<< << <<"A">>, PlanningPath(<<"phase-4", ".md">>) >>,
              << <<"M">>, SCOREBOARD_PATH >> >>) \o <<"\n">>

DiffOutcomes ==
  {DiffFails, DiffPrints(<<>>), DiffPrints(UnpairedAddition), DiffPrints(PairedAddition)}

Refs == {OriginRef("main"), OriginRef("master"), HeadParent}

Repositories ==
  [verifies : SUBSET {OriginRef("main"), OriginRef("master")},
   diff : [Refs -> DiffOutcomes]]

ValidBoard ==
  JObj([version |-> JNum(<<"1">>),
        capabilities |-> JArr(<<Capability(<<"a">>, <<"First">>, Str("operational")),
                                Capability(<<"z">>, <<"Last">>, Str("scaffold"))>>)])

DuplicateBoard ==
  JObj([version |-> JNum(<<"1">>),
        capabilities |-> JArr(<<Capability(<<"a">>, <<"First">>, Str("operational")),
                                Capability(<<"a">>, <<"Other">>, Str("scaffold"))>>)])

ScoreboardFiles == {Missing, Invalid, File(ValidBoard), File(DuplicateBoard), File(JNull)}

CliArgLists ==
  { <<>>,
    <<Flag("summary")>>,
    <<Flag("report-file"), ReportPath>>,
    <<Flag("report-file"), ReportPath, Flag("report-format"), Str("json")>>,
    <<Flag("summary"), Flag("report-file"), ReportPath>>,
    <<Flag("report-format"), Str("yaml")>> }

InitCli ==
  /\ policyFile = Missing
  /\ contractsFile = Missing
  /\ outcome = NotCalled
  /\ pinned = NotPinned
  /\ env = [GITHUB_MODE_ADAPTER |-> Undefined, GITHUB_MODE_ACTION |-> Undefined]
  /\ argv \in CliArgLists
  /\ pc = "guard"
  /\ index = 0
  /\ exitCode = 0
  /\ written = <<>>
  /\ printed = <<>>
  /\ DiffOff
  /\ scoreboard = [k |-> "undefined"]
  /\ reordered = [k |-> "undefined"]
  /\ validation = Pending
  /\ counts = Pending
  /\ report = Pending
  /\ reportReordered = Pending
  /\ options = Pending
  /\ repository \in Repositories
  /\ baseRef = Pending
  /\ scoreboardFile \in ScoreboardFiles

\* what no step of a run writes to
cliFixed == <<fileVars, outcome, pinned, env, argv, index, pathVars, diffLines,
              diffOutput, addedSpecs, updated, reordered, counts, reportReordered,
              repository, scoreboardFile>>

\* the entry guard: main runs only when the file is the script being run
CliEntryGuard ==
  /\ pc = "guard"
  /\ \E direct \in BOOLEAN : pc' = IF direct THEN "options" ELSE "imported"
  /\ UNCHANGED <<cliFixed, exitCode, written, printed, entries, tracking, scoreboard,
                 validation, report, options, baseRef>>

\* const options = parseCliOptions(process.argv.slice(2))
CliParse ==
  /\ pc = "options"
  /\ options' = Done(parseCliOptions(argv))
  /\ pc' = IF options'.value.kind = "threw" THEN "catch" ELSE "diff"
  /\ UNCHANGED <<cliFixed, exitCode, written, printed, entries, tracking, scoreboard,
                 validation, report, baseRef>>

\* const entries = getDiffEntries()
CliDiff ==
  /\ pc = "diff"
  /\ baseRef' = Done(determineBaseRef(repository))
  /\ entries' = Done(getDiffEntries(repository))
  /\ pc' = "load"
  /\ UNCHANGED <<cliFixed, exitCode, written, printed, tracking, scoreboard,
                 validation, report, options>>

\* const scoreboard = loadScoreboard()
CliLoad ==
  /\ pc = "load"
  /\ IF readJson(scoreboardFile).ok
     THEN scoreboard' = readJson(scoreboardFile).value /\ pc' = "validate"
     ELSE pc' = "catch" /\ UNCHANGED scoreboard
  /\ UNCHANGED <<cliFixed, exitCode, written, printed, entries, tracking,
                 validation, report, options, baseRef>>

\* mutant: a scoreboard that fails validation is reported on all the same
CliValidate_lenient ==
  /\ pc = "validate"
  /\ validation' = Done(validateScoreboard(scoreboard))
  /\ pc' = IF PropertyReadThrows(scoreboard) \/ ~IsArray(Get(scoreboard, "capabilities"))
           THEN "catch" ELSE "report"
  /\ UNCHANGED <<cliFixed, exitCode, written, printed, entries, tracking, scoreboard,
                 report, options, baseRef>>

\* validateScoreboard(scoreboard)
CliValidate ==
  /\ pc = "validate"
  /\ validation' = Done(validateScoreboard(scoreboard))
  /\ pc' = IF validation'.value.kind = "threw" THEN "catch" ELSE "report"
  /\ UNCHANGED <<cliFixed, exitCode, written, printed, entries, tracking, scoreboard,
                 report, options, baseRef>>

\* the report file: its path, its format and the report it renders
ReportFile(board, outputPath, format) ==
  [path |-> outputPath, format |-> format, report |-> buildParityReport(board).value]

\* if (options.reportFile) { writeParityReport(...); console.log(...) }:
\* mkdirSync and writeFileSync succeed, or one of them throws
CliReport ==
  /\ pc = "report"
  /\ IF "reportFile" \in DOMAIN options.value.value
     THEN \/ /\ written' = Append(written, ReportFile(scoreboard,
                                                      options.value.value.reportFile,
                                                      options.value.value.reportFormat))
             /\ report' = Done(ReturnedVoid)
             /\ printed' = Append(printed,
                                  Stdout(<<"Wrote parity report to ">>
                                           \o options.value.value.reportFile))
             /\ pc' = "summary"
          \/ /\ report' = Done(Threw(<<"EACCES: permission denied">>))
             /\ pc' = "catch"
             /\ UNCHANGED <<written, printed>>
     ELSE pc' = "summary" /\ UNCHANGED <<written, report, printed>>
  /\ UNCHANGED <<cliFixed, exitCode, entries, tracking, scoreboard, validation,
                 options, baseRef>>

\* mutant: the summary is printed and the run goes on to the tracking rule
CliSummary_goesOn ==
  /\ pc = "summary"
  /\ IF options.value.value.summary
     THEN /\ printed' = Append(printed, Stdout(renderSummaryMarkdown(scoreboard)))
          /\ pc' = "enforce"
     ELSE pc' = "enforce" /\ UNCHANGED printed
  /\ UNCHANGED <<cliFixed, exitCode, written, entries, tracking, scoreboard,
                 validation, report, options, baseRef>>

\* if (options.summary) { console.log(renderSummaryMarkdown(scoreboard)); return }
CliSummary ==
  /\ pc = "summary"
  /\ IF options.value.value.summary
     THEN /\ printed' = Append(printed, Stdout(renderSummaryMarkdown(scoreboard)))
          /\ pc' = "exited"
     ELSE pc' = "enforce" /\ UNCHANGED printed
  /\ UNCHANGED <<cliFixed, exitCode, written, entries, tracking, scoreboard,
                 validation, report, options, baseRef>>

\* enforceSpecToImplementationTracking(entries) and the two closing lines
CliEnforce ==
  /\ pc = "enforce"
  /\ tracking' = Done(enforceSpecToImplementationTracking(entries.value))
  /\ IF tracking'.value.kind = "threw"
     THEN pc' = "catch" /\ UNCHANGED printed
     ELSE /\ printed' = printed \o
               <<Stdout(<<"Implementation scoreboard is valid and spec tracking guard passed.">>),
                 Stdout(renderSummaryMarkdown(scoreboard))>>
          /\ pc' = "exited"
  /\ UNCHANGED <<cliFixed, exitCode, written, entries, scoreboard, validation,
                 report, options, baseRef>>

\* the message of the exception that reached the entry guard
CaughtMessage ==
  IF options.value.kind = "threw" THEN options.value.message
  ELSE IF ~readJson(scoreboardFile).ok THEN readJson(scoreboardFile).message
  ELSE IF validation.value.kind = "threw" THEN validation.value.message
  ELSE IF report # Pending /\ report.value.kind = "threw" THEN report.value.message
  ELSE tracking.value.message

\* catch (error) { console.error(message); process.exit(1) }
CliCatch ==
  /\ pc = "catch"
  /\ Exit1(<<Stderr(CaughtMessage)>>)
  /\ UNCHANGED <<cliFixed, written, entries, tracking, scoreboard, validation,
                 report, options, baseRef>>

NextCli ==
  \/ CliEntryGuard
  \/ CliParse
  \/ CliDiff
  \/ CliLoad
  \/ CliValidate
  \/ CliReport
  \/ CliSummary
  \/ CliEnforce
  \/ CliCatch

SpecCli == InitCli /\ [][NextCli]_vars

------------------------------------------------------------------------------
\* What the claims about a run of the scoreboard script speak of

SummaryRun == OptionsReturned /\ options.value.value.summary
FullRun == OptionsReturned /\ ~options.value.value.summary

ValidationRan == validation # Pending
ValidationPassed == validation = Done(ReturnedVoid)
EnforcementRan == tracking # Pending
EnforcementPassed == tracking = Done(ReturnedVoid)
EnforcementFailed == EnforcementRan /\ tracking.value.kind = "threw"

\* the diff against the base reference adds a spec artifact and leaves the
\* scoreboard alone
UnpairedSpecAddition ==
  /\ baseRef # Pending
  /\ repository.diff[baseRef.value] = DiffPrints(UnpairedAddition)

SummaryPrinted ==
  /\ ValidationPassed
  /\ \E i \in DOMAIN printed : printed[i] = Stdout(renderSummaryMarkdown(scoreboard))

ReportWritten == written # <<>>
ReportWriteFailed == report # Pending /\ report.value.kind = "threw"
LoadFailed == ~readJson(scoreboardFile).ok

\* C22: a run without --summary validates the scoreboard and then enforces
\* the spec pairing, and exits non-zero when either fails: it exits 0 only
\* after both have passed, enforcement never running before validation has
\* passed; a run with --summary never runs the enforcement, exits 0 with the
\* summary printed unless loading, validating or the report write fails, and
\* so exits 0 over an unpaired spec addition.
C22_SummarySkipsEnforcement ==
  /\ EnforcementRan => (FullRun /\ ValidationPassed)
  /\ (RunExited /\ FullRun) =>
       /\ (ValidationThrew \/ EnforcementFailed) => exitCode # 0
       /\ exitCode = 0 => (ValidationPassed /\ EnforcementPassed)
       /\ (ValidationPassed /\ ~ReportWriteFailed) => EnforcementRan
       /\ (UnpairedSpecAddition /\ ValidationPassed /\ ~ReportWriteFailed) => exitCode # 0
  /\ SummaryRun => ~EnforcementRan
  /\ (RunExited /\ SummaryRun) =>
       /\ exitCode = 0 <=> (ValidationPassed /\ ~ReportWriteFailed)
       /\ exitCode = 0 => SummaryPrinted

\* a --summary run over an unpaired spec addition: summary printed, exit 0
C22_Witness ==
  /\ RunExited
  /\ SummaryRun
  /\ UnpairedSpecAddition
  /\ SummaryPrinted
  /\ exitCode = 0

\* the same checkout without --summary: enforcement fails, exit 1
C22_WitnessFullRun ==
  /\ RunExited
  /\ FullRun
  /\ UnpairedSpecAddition
  /\ ValidationPassed
  /\ EnforcementFailed
  /\ exitCode = 1

------------------------------------------------------------------------------
ReportRequested == OptionsReturned /\ "reportFile" \in DOMAIN options.value.value

\* C29: validateScoreboard has returned before any parity report is written,
\* so no report file comes from a scoreboard that fails validation; the report
\* is written before the spec pairing is enforced, so a run with --report-file
\* and a valid scoreboard leaves the report behind even when it then exits
\* non-zero because enforcement fails.
C29_ReportAfterValidationBeforeEnforcement ==
  /\ [](ReportWritten =>
          /\ ValidationPassed
          /\ WellFormed(scoreboard)
          /\ written = <<ReportFile(scoreboard, options.value.value.reportFile,
                                    options.value.value.reportFormat)>>)
  /\ []((EnforcementRan /\ ReportRequested) => ReportWritten)
  /\ []((RunExited /\ ReportRequested /\ EnforcementFailed) =>
          (ReportWritten /\ exitCode # 0))
  /\ [][written' # written => (ValidationPassed /\ ~EnforcementRan)]_vars

\* the report was written, then enforcement failed and the run exited 1
C29_Witness ==
  /\ RunExited
  /\ ReportRequested
  /\ ReportWritten
  /\ EnforcementFailed
  /\ exitCode = 1

\* a scoreboard that fails validation, a report asked for, none written
C29_WitnessInvalid ==
  /\ RunExited
  /\ ReportRequested
  /\ ValidationThrew
  /\ ~ReportWritten
  /\ exitCode = 1

------------------------------------------------------------------------------
Verifies(branch) == OriginRef(branch) \in repository.verifies

\* what git diff against the base reference used does
DiffRun == repository.diff[baseRef.value]

\* C30: the base reference is origin/main when it verifies, else origin/master
\* when it verifies, else HEAD~1; when the diff against it throws or prints
\* nothing, getDiffEntries returns the empty change list instead of raising,
\* the enforcement that follows passes, and a run that fails nowhere else
\* exits 0.
C30_DiffFailureIsEmptyChangeList ==
  entries # Pending =>
    /\ baseRef.value = IF Verifies("main") THEN OriginRef("main")
                       ELSE IF Verifies("master") THEN OriginRef("master")
                       ELSE HeadParent
    /\ (DiffRun = DiffFails \/ DiffRun = DiffPrints(<<>>)) =>
         /\ entries.value = <<>>
         /\ EnforcementRan => EnforcementPassed
         /\ (RunExited /\ ~LoadFailed /\ ValidationPassed /\ ~ReportWriteFailed)
              => exitCode = 0
    /\ DiffRun = DiffPrints(UnpairedAddition) =>
         entries.value = <<DiffEntry(<<"A">>, PlanningPath(<<"phase-4", ".md">>))>>
    /\ DiffRun = DiffPrints(PairedAddition) =>
         entries.value = <<DiffEntry(<<"A">>, PlanningPath(<<"phase-4", ".md">>)),
                           DiffEntry(<<"M">>, SCOREBOARD_PATH)>>

\* the diff against origin/main throws while other refs would show an unpaired
\* addition: the full run passes enforcement and exits 0
C30_Witness ==
  /\ RunExited
  /\ FullRun
  /\ baseRef = Done(OriginRef("main"))
  /\ DiffRun = DiffFails
  /\ repository.diff[HeadParent] = DiffPrints(UnpairedAddition)
  /\ entries.value = <<>>
  /\ EnforcementPassed
  /\ exitCode = 0

\* origin/main does not verify, origin/master does
C30_WitnessMaster ==
  /\ entries # Pending
  /\ ~Verifies("main")
  /\ baseRef = Done(OriginRef("master"))
  /\ DiffRun = DiffPrints(UnpairedAddition)

\* neither verifies and the diff against HEAD~1 throws
C30_WitnessHeadParent ==
  /\ entries # Pending
  /\ repository.verifies = {}
  /\ baseRef = Done(HeadParent)
  /\ DiffRun = DiffFails
  /\ entries.value = <<>>

====
